---- MODULE Spec2Model ----
(***************************************************************************)
(* Model of the PIQI pipeline of piqitt-contest:                           *)
(*   - lib/piqi_eval.py: the value extractor, the SAM functions and        *)
(*     PIQIEvaluator.evaluate_bundle, one action per loop iteration;       *)
(*   - lib/fhir_convert_backend.py: convert_message_to_bundle and          *)
(*     build_piqi_observation;                                             *)
(*   - scripts/hl7_out_to_piqi.py, scripts/fhir_annotate.py: the two       *)
(*     add_piqi_to_bundle entry points.                                    *)
(* JSON values are tagged records: Null, Str, Num, List, Dict.  A Python   *)
(* exception is the status "RAISE".                                        *)
(***************************************************************************)
EXTENDS Integers, Sequences, FiniteSets, TLC

\* ------------------------------------------------------------------------
\* Bounds of the model
\* ------------------------------------------------------------------------
MaxSteps == 2
MaxEntries == 2
MaxSegs == 3

\* ------------------------------------------------------------------------
\* JSON values
\* ------------------------------------------------------------------------
Null == [t |-> "null"]
Str(s) == [t |-> "str", s |-> s]
Num(n) == [t |-> "num", n |-> n]
List(items) == [t |-> "list", items |-> items]
Dict(kv) == [t |-> "dict", kv |-> kv]
EmptyDict == Dict(<<>>)

IsDict(v) == v.t = "dict"
IsList(v) == v.t = "list"
IsStr(v) == v.t = "str"
HasKey(v, k) == IsDict(v) /\ k \in DOMAIN v.kv
\* dict.get(k): the value, or None
Get(v, k) == IF k \in DOMAIN v.kv THEN v.kv[k] ELSE Null

\* Python truthiness of a JSON value
Truthy(v) ==
  CASE v.t = "null" -> FALSE
    [] v.t = "str"  -> v.s # ""
    [] v.t = "num"  -> v.n # 0
    [] v.t = "list" -> Len(v.items) > 0
    [] v.t = "dict" -> DOMAIN v.kv # {}

\* `a or b`
Or(a, b) == IF Truthy(a) THEN a ELSE b

\* The strings of the model and what Python's str.strip, float() and the
\* date regular expression make of them.
BlankStrings == {"", " "}
DateStrings == {"1980-01-01"}
NumericStrings == {"120", "400"}
Strip(s) == IF s \in BlankStrings THEN "" ELSE s
Lower(s) == IF s = "LN" THEN "ln" ELSE s
Upper(s) == IF s = "abc" THEN "ABC" ELSE IF s = "oru" THEN "ORU" ELSE s

RECURSIVE Concat(_)
Concat(ss) == IF Len(ss) = 0 THEN << >> ELSE Head(ss) \o Concat(Tail(ss))

\* ------------------------------------------------------------------------
\* Value extractor
\* ------------------------------------------------------------------------
\* A path is a sequence of segments [key, star].
Seg(k) == [key |-> k, star |-> FALSE]
SegStar(k) == [key |-> k, star |-> TRUE]

\* lines 82-87 / 91-96: the matches one dict contributes for one segment
Pick(d, key, star) ==
  IF HasKey(d, key)
  THEN LET val == d.kv[key]
       IN IF star /\ IsList(val) THEN val.items ELSE <<val>>
  ELSE << >>

\* lines 81-96: the matches one node contributes for one segment
Expand(node, key, star) ==
  IF HasKey(node, key) THEN Pick(node, key, star)
  ELSE IF IsList(node)
       THEN Concat([i \in 1..Len(node.items) |-> Pick(node.items[i], key, star)])
       ELSE << >>

RECURSIVE Walk(_, _)
Walk(current, parts) ==
  IF Len(parts) = 0 THEN current
  ELSE Walk(Concat([i \in 1..Len(current) |->
                      Expand(current[i], Head(parts).key, Head(parts).star)]),
            Tail(parts))

_deep_get(obj, path) ==
  IF Len(path) = 0 \/ obj = Null THEN << >> ELSE Walk(<<obj>>, path)

ValueXPath == <<Seg("value[x]")>>
ValueXKeys == <<"valueQuantity", "valueString", "valueCodeableConcept", "valueDateTime">>

_extract_value(resource, path) ==
  IF Get(resource, "resourceType") = Str("Observation") /\ path = ValueXPath
  THEN LET out == Concat([i \in 1..Len(ValueXKeys) |->
                   IF HasKey(resource, ValueXKeys[i])
                   THEN <<resource.kv[ValueXKeys[i]]>> ELSE << >>])
       IN IF Len(out) = 0 THEN <<Null>> ELSE out
  ELSE _deep_get(resource, path)

\* ------------------------------------------------------------------------
\* SAM functions.  Each returns "PASS", "FAIL" or "SKIP", or "RAISE" when the
\* Python function raises.  The values of the model hold a list, null or a
\* number under "coding" (a number is not iterable).
\* ------------------------------------------------------------------------
\* float(s) succeeds
_safe_float(v) == v.t = "num" \/ (IsStr(v) /\ v.s \in NumericStrings)
FloatOf(v) ==
  IF v.t = "num" THEN v.n ELSE IF v.s = "120" THEN 120 ELSE 400

\* (x or "").strip(): defined unless x is truthy and not a string
CanStrip(v) == ~Truthy(v) \/ IsStr(v)
StripOr(v) == IF Truthy(v) THEN Strip(v.s) ELSE ""

\* `x or []` can be iterated
CanIter(v) == ~Truthy(v) \/ IsList(v)
ItemsOr(v) == IF Truthy(v) THEN v.items ELSE << >>

LoincSystems == {"loinc", "http://loinc.org", "urn:oid:2.16.840.1.113883.6.1", "ln"}

\* _loinc_like on a string
_loinc_like(s) == s # "" /\ Lower(Strip(s)) \in LoincSystems

Attr_IsPopulated(value) ==
  IF value = Null THEN "FAIL"
  ELSE IF IsStr(value) /\ Strip(value.s) = "" THEN "FAIL"
  ELSE IF IsList(value) /\ Len(value.items) = 0 THEN "FAIL"
  ELSE "PASS"

Attr_IsNumeric(value) ==
  IF value = Null \/ (IsStr(value) /\ Strip(value.s) = "") THEN "SKIP"
  ELSE IF _safe_float(value) THEN "PASS" ELSE "FAIL"

Attr_IsDate(value) ==
  IF value = Null \/ value = Str("") THEN "SKIP"
  ELSE IF IsStr(value) /\ value.s \in DateStrings THEN "PASS" ELSE "FAIL"

\* any((c.get("code") or "").strip() for c in codings if isinstance(c, dict))
RECURSIVE AnyHasCode(_)
AnyHasCode(codings) ==
  IF Len(codings) = 0 THEN "F"
  ELSE LET c == Head(codings)
       IN IF ~IsDict(c) THEN AnyHasCode(Tail(codings))
          ELSE IF ~CanStrip(Get(c, "code")) THEN "RAISE"
          ELSE IF StripOr(Get(c, "code")) # "" THEN "T"
          ELSE AnyHasCode(Tail(codings))

Concept_HasCode(value) ==
  IF value = Null THEN "FAIL"
  ELSE IF HasKey(value, "coding")
  THEN IF ~CanIter(Get(value, "coding")) THEN "RAISE"
       ELSE LET ok == AnyHasCode(ItemsOr(Get(value, "coding")))
            IN IF ok = "RAISE" THEN "RAISE" ELSE IF ok = "T" THEN "PASS" ELSE "FAIL"
  ELSE IF IsDict(value)
  THEN IF ~CanStrip(Get(value, "code")) THEN "RAISE"
       ELSE IF StripOr(Get(value, "code")) # "" THEN "PASS" ELSE "FAIL"
  ELSE "SKIP"

\* kwargs.get(k) or ""
Param(params, k) == IF k \in DOMAIN params THEN params[k] ELSE ""

\* is_valid(coding) of Concept_IsValidMember: "T", "F" or "RAISE"
is_valid(coding, system_param, allowed) ==
  IF ~IsDict(coding) THEN "RAISE"
  ELSE IF ~CanStrip(Get(coding, "code")) \/ ~CanStrip(Get(coding, "system")) THEN "RAISE"
  ELSE LET code == Upper(StripOr(Get(coding, "code")))
           system == StripOr(Get(coding, "system"))
       IN IF system_param = "LOINC" /\ ~_loinc_like(system) THEN "F"
          ELSE IF code # "" /\ code \in allowed THEN "T" ELSE "F"

\* any(is_valid(c) for c in codings), left to right
RECURSIVE AnyValid(_, _, _)
AnyValid(codings, system_param, allowed) ==
  IF Len(codings) = 0 THEN "F"
  ELSE LET r == is_valid(Head(codings), system_param, allowed)
       IN IF r = "F" THEN AnyValid(Tail(codings), system_param, allowed) ELSE r

Concept_IsValidMember(value, value_sets, params) ==
  LET system_param == Upper(Param(params, "system"))
      allowed == IF system_param \in DOMAIN value_sets THEN value_sets[system_param] ELSE {}
  IN IF HasKey(value, "coding")
     THEN IF ~CanIter(Get(value, "coding")) THEN "RAISE"
          ELSE LET ok == AnyValid(ItemsOr(Get(value, "coding")), system_param, allowed)
               IN IF ok = "RAISE" THEN "RAISE" ELSE IF ok = "T" THEN "PASS" ELSE "FAIL"
     ELSE IF IsDict(value)
     THEN LET ok == is_valid(value, system_param, allowed)
          IN IF ok = "RAISE" THEN "RAISE" ELSE IF ok = "T" THEN "PASS" ELSE "FAIL"
     ELSE "SKIP"

ObservationValue_IsNumeric(value) ==
  IF value = Null THEN "SKIP"
  ELSE IF HasKey(value, "value")
  THEN (IF _safe_float(value.kv["value"]) THEN "PASS" ELSE "FAIL")
  ELSE IF _safe_float(value) THEN "PASS" ELSE "FAIL"

RangeValue_IsComplete(value) ==
  IF ~IsDict(value) THEN "SKIP"
  ELSE LET low == Or(Get(value, "low"), Get(value, "lowValue"))
           high == Or(Get(value, "high"), Get(value, "highValue"))
       IN IF low # Null /\ high # Null THEN "PASS" ELSE "FAIL"

\* any(_loinc_like(c.get("system", "")) for c in codings), left to right
RECURSIVE AnyLoinc(_)
AnyLoinc(codings) ==
  IF Len(codings) = 0 THEN "F"
  ELSE LET c == Head(codings)
           system == IF HasKey(c, "system") THEN c.kv["system"] ELSE Str("")
       IN IF ~IsDict(c) THEN "RAISE"
          ELSE IF ~CanStrip(system) THEN "RAISE"
          ELSE IF _loinc_like(IF Truthy(system) THEN system.s ELSE "") THEN "T"
          ELSE AnyLoinc(Tail(codings))

LabResult_ValueIsPlausible(obs) ==
  LET code == Or(Get(obs, "code"), EmptyDict)
  IN IF ~IsDict(code) THEN "RAISE"
     ELSE IF ~CanIter(Get(code, "coding")) THEN "RAISE"
     ELSE LET loinc == AnyLoinc(ItemsOr(Get(code, "coding")))
              vq == Get(obs, "valueQuantity")
          IN IF loinc = "RAISE" THEN "RAISE"
             ELSE IF loinc = "F" THEN "SKIP"
             ELSE IF vq = Null THEN "SKIP"
             ELSE IF ~IsDict(vq) THEN "RAISE"
             ELSE IF _safe_float(Get(vq, "value")) THEN "PASS" ELSE "FAIL"

\* "loinc" in sys or "2.16.840.1.113883.6.1" in sys, for the lowered system
LoincSubstring(s) ==
  Lower(s) \in {"loinc", "http://loinc.org", "urn:oid:2.16.840.1.113883.6.1"}

\* _obs_first_loinc over the codings: [raise, code]
RECURSIVE FirstLoinc(_)
FirstLoinc(codings) ==
  IF Len(codings) = 0 THEN [raise |-> FALSE, code |-> Null]
  ELSE LET c == Head(codings)
       IN IF ~IsDict(c) THEN [raise |-> TRUE, code |-> Null]
          ELSE IF Truthy(Get(c, "system")) /\ ~IsStr(Get(c, "system"))
          THEN [raise |-> TRUE, code |-> Null]
          ELSE IF Truthy(Get(c, "system")) /\ LoincSubstring(Get(c, "system").s)
          THEN [raise |-> FALSE, code |-> Get(c, "code")]
          ELSE FirstLoinc(Tail(codings))

_obs_first_loinc(obs) ==
  LET code == Or(Get(obs, "code"), EmptyDict)
  IN IF ~IsDict(code) \/ ~CanIter(Get(code, "coding"))
     THEN [raise |-> TRUE, code |-> Null]
     ELSE FirstLoinc(ItemsOr(Get(code, "coding")))

\* `loinc and loinc in by_loinc`: "T", "F", or "RAISE" on an unhashable code
InByLoinc(loinc, by_loinc) ==
  IF ~Truthy(loinc) THEN "F"
  ELSE IF IsList(loinc) \/ IsDict(loinc) THEN "RAISE"
  ELSE IF IsStr(loinc) /\ loinc.s \in DOMAIN by_loinc THEN "T" ELSE "F"

Observation_UnitAllowed(obs, cfg) ==
  LET vq == Get(obs, "valueQuantity")
  IN IF ~IsDict(vq) THEN "SKIP"
     ELSE IF ~CanStrip(Get(vq, "unit")) THEN "RAISE"
     ELSE IF StripOr(Get(vq, "unit")) = "" THEN "FAIL"
     ELSE LET first == _obs_first_loinc(obs)
              found == InByLoinc(first.code, cfg.by_loinc)
          IN IF first.raise \/ found = "RAISE" THEN "RAISE"
             ELSE IF found = "T"
             THEN (IF StripOr(Get(vq, "unit")) \in cfg.by_loinc[first.code.s].units
                   THEN "PASS" ELSE "FAIL")
             ELSE "SKIP"

\* in_range(rec) for a parsed value
in_range(rec, val) == val >= rec.min /\ val <= rec.max

Observation_ValueWithinRange(obs, cfg) ==
  LET vq == Get(obs, "valueQuantity")
  IN IF ~IsDict(vq) \/ ~HasKey(vq, "value") THEN "SKIP"
     ELSE IF ~_safe_float(vq.kv["value"]) THEN "FAIL"
     ELSE LET first == _obs_first_loinc(obs)
              found == InByLoinc(first.code, cfg.by_loinc)
          IN IF first.raise \/ found = "RAISE" THEN "RAISE"
             ELSE IF found = "T"
             THEN (IF in_range(cfg.by_loinc[first.code.s], FloatOf(vq.kv["value"]))
                   THEN "PASS" ELSE "FAIL")
             ELSE "SKIP"

\* ------------------------------------------------------------------------
\* Evaluator configuration: the loaded SAM library, the dispatch registry,
\* the value sets and the plausibility configuration
\* ------------------------------------------------------------------------
None == "None"

\* self.sam_defs: mnemonic -> SamSpec (the prerequisite is what the loop reads)
sam_defs ==
  [m \in {"Attr_IsPopulated", "Attr_IsNumeric", "Attr_IsDate", "Concept_HasCode",
          "Concept_IsValidMember", "ObservationValue_IsNumeric",
          "RangeValue_IsComplete", "LabResult_ValueIsPlausible",
          "Observation_UnitAllowed", "Observation_ValueWithinRange",
          "Custom_Regex", "Custom_Checked"} |->
     [mnemonic |-> m,
      prereq |-> CASE m = "Attr_IsDate" -> "Attr_IsPopulated"
                   [] m = "Concept_IsValidMember" -> "Concept_HasCode"
                   [] m = "Observation_ValueWithinRange" -> "Observation_UnitAllowed"
                   [] m = "Custom_Checked" -> "Custom_Pre"
                   [] OTHER -> None]]

\* the keys of self.sam_dispatch
sam_dispatch ==
  {"Attr_IsPopulated", "Attr_IsNumeric", "Attr_IsDate", "Concept_HasCode",
   "Concept_IsValidMember", "ObservationValue_IsNumeric", "RangeValue_IsComplete",
   "LabResult_ValueIsPlausible", "Observation_UnitAllowed",
   "Observation_ValueWithinRange"}

value_sets == ("LOINC" :> {"8480-6"}) @@ ("CPT" :> {})

plausibility_cfg ==
  [by_loinc |-> ("8480-6" :> [units |-> {"mmHg"}, min |-> 50, max |-> 250]),
   by_class |-> << >>]

\* _run_sam
_run_sam(mnemonic, value, res, params) ==
  IF mnemonic \notin sam_dispatch THEN "SKIP"
  ELSE CASE mnemonic = "Observation_UnitAllowed" ->
              Observation_UnitAllowed(res, plausibility_cfg)
         [] mnemonic = "Observation_ValueWithinRange" ->
              Observation_ValueWithinRange(res, plausibility_cfg)
         [] mnemonic = "LabResult_ValueIsPlausible" -> LabResult_ValueIsPlausible(res)
         [] mnemonic = "Attr_IsPopulated" -> Attr_IsPopulated(value)
         [] mnemonic = "Attr_IsNumeric" -> Attr_IsNumeric(value)
         [] mnemonic = "Attr_IsDate" -> Attr_IsDate(value)
         [] mnemonic = "Concept_HasCode" -> Concept_HasCode(value)
         [] mnemonic = "Concept_IsValidMember" ->
              Concept_IsValidMember(value, value_sets, params)
         [] mnemonic = "ObservationValue_IsNumeric" -> ObservationValue_IsNumeric(value)
         [] mnemonic = "RangeValue_IsComplete" -> RangeValue_IsComplete(value)

\* _run_sam lines 600-602: the map the plausibility SAMs are called with
\* (setdefault keeps a plausibility_cfg the step already gives)
CallParams(params) == params @@ ("plausibility_cfg" :> plausibility_cfg)
PlausibilitySams == {"Observation_UnitAllowed", "Observation_ValueWithinRange"}

\* variant: setdefault applied to the caller's own map
CallerParams_inPlace(mnemonic, params) ==
  IF mnemonic \in sam_dispatch /\ mnemonic \in PlausibilitySams
  THEN CallParams(params) ELSE params
\* the caller's map after _run_sam(mnemonic, ..., params): line 601 works on
\* a copy, dict(params or {})
CallerParams(mnemonic, params) == params

\* the caller's map after _run_sam was called with each of sams in turn
RECURSIVE ParamsAfter(_, _)
ParamsAfter(sams, params) ==
  IF Len(sams) = 0 THEN params
  ELSE ParamsAfter(Tail(sams), CallerParams(Head(sams), params))

\* ------------------------------------------------------------------------
\* Inputs of the evaluation: resources and profile steps
\* ------------------------------------------------------------------------
Coding(system, code) == Dict(("system" :> Str(system)) @@ ("code" :> Str(code)))

ResourcePool ==
  << Dict(("resourceType" :> Str("Patient")) @@ ("id" :> Str("pat-1"))
          @@ ("birthDate" :> Str("1980-01-01"))),
     Dict(("resourceType" :> Str("Patient")) @@ ("id" :> Str("pat-2"))),
     Dict(("resourceType" :> Str("Observation")) @@ ("id" :> Str("obs-1"))
          @@ ("code" :> Dict("coding" :> List(<<Coding("http://loinc.org", "8480-6")>>)))
          @@ ("valueQuantity" :> Dict(("value" :> Num(400)) @@ ("unit" :> Str("mmHg"))))),
     Dict(("resourceType" :> Str("Observation")) @@ ("id" :> Str("obs-2"))
          @@ ("valueString" :> Str("abc"))),
     Dict(("resourceType" :> Str("Observation")) @@ ("id" :> Str("obs-3"))
          @@ ("code" :> Dict("coding" :> List(<<Coding("LN", "zzz"), Str("x")>>)))
          @@ ("valueQuantity" :> Num(5))),
     Dict(("resourceType" :> Str("Observation")) @@ ("id" :> Str("obs-4"))
          @@ ("code" :> Dict("coding" :> List(<<Coding("http://loinc.org", "8480-6")>>)))
          @@ ("valueQuantity" :> Dict("value" :> Str("120")))) >>

NoParams == << >>
StepSpec(id, resource, path, sam, params, effect, weight, critical, condition) ==
  [id |-> id, resource |-> resource, path |-> path, sam |-> sam, params |-> params,
   effect |-> effect, weight |-> weight, critical |-> critical, condition |-> condition]
Condition(sam) == [sam |-> sam, params |-> NoParams]
NoCondition == [sam |-> None, params |-> NoParams]

StepPool ==
  << StepSpec("s1", "Patient", <<Seg("birthDate")>>, "Attr_IsDate", NoParams,
              "Scoring", 1, FALSE, NoCondition),
     StepSpec("s2", "Observation", <<Seg("code")>>, "Concept_HasCode", NoParams,
              "Scoring", 2, TRUE, NoCondition),
     StepSpec("s3", "Observation", <<Seg("code"), SegStar("coding")>>,
              "Concept_IsValidMember", ("system" :> "LOINC"),
              "Scoring", 1, FALSE, Condition("Attr_IsPopulated")),
     StepSpec("s4", "Observation", ValueXPath, "Observation_ValueWithinRange", NoParams,
              "Informational", 1, TRUE, NoCondition),
     StepSpec("s5", "Patient", <<Seg("birthDate")>>, "Attr_IsDate", NoParams,
              "Informational", 0, TRUE, NoCondition),
     StepSpec("s6", "Patient", <<Seg("birthDate")>>, "Attr_IsNumeric", NoParams,
              "Informational", 1, FALSE, NoCondition),
     StepSpec("s7", "Observation", <<Seg("code")>>, "Concept_IsValidMember",
              ("system" :> "LOINC"), "Scoring", 3, TRUE, NoCondition),
     StepSpec("s8", "Patient", <<Seg("birthDate")>>, "Unknown_Sam", NoParams,
              "Scoring", 1, FALSE, NoCondition),
     StepSpec("s9", "Patient", <<Seg("id")>>, "Custom_Regex", NoParams,
              "Scoring", 1, FALSE, Condition("Custom_Cond")),
     StepSpec("s10", "Observation", <<Seg("id")>>, "Custom_Checked", NoParams,
              "Scoring", 1, FALSE, NoCondition),
     StepSpec("s11", "Observation", <<Seg("code"), SegStar("coding")>>, "Custom_Regex", NoParams,
              "Scoring", 2, TRUE, NoCondition),
     StepSpec("s12", "Patient", <<Seg("birthDate")>>, "Attr_IsPopulated", NoParams,
              "Scoring", 1, FALSE, Condition("Attr_IsDate")) >>

\* the subsequences of pool (its order kept) of at most n elements
SubSeqs(pool, n) ==
  { [i \in 1..Cardinality(S) |->
       pool[CHOOSE x \in S : Cardinality({y \in S : y < x}) = i - 1]] :
    S \in { T \in SUBSET (1..Len(pool)) : Cardinality(T) <= n } }

Bundles == SubSeqs(ResourcePool, MaxEntries)
Profiles == SubSeqs(StepPool, MaxSteps)

\* ------------------------------------------------------------------------
\* State
\* ------------------------------------------------------------------------
VARIABLES
  bundle,          \* evaluate_bundle: the resources of bundle["entry"], in order
  steps,           \* evaluate_bundle: the steps of the profile
  pc,              \* evaluate_bundle: "step" | "res" | "val" | "done" | "error"
  si, ri, vi,      \* positions of the three nested loops (1-based, 0 = not in the loop)
  values,          \* the fan-out of the current resource
  numerator, denominator, weighted_num, weighted_den, critical_fails,
  details,
  cond_status, prereq_status, status,   \* what the last iteration's SAM runs returned
  ran,             \* the mnemonics _run_sam was called with in the last iteration
  raised,          \* where the exception that ended the evaluation was raised
  result,          \* the value evaluate_bundle returned
  calls,           \* the evaluate_bundle calls made on this evaluator so far
  returned,        \* what those calls were given and returned, in call order
  msg,             \* converter: the parsed HL7 message
  cbundle,         \* converter: the entries of the converted bundle
  cstage,          \* converter: "idle" | "parsed" | "converted" | "annotated"
  next_id,         \* converter: the ids new_id has handed out so far
  annotations,     \* annotator: the add_piqi_to_bundle calls made on the bundle
  pipeline,        \* pipeline: the script that runs
  listing,         \* pipeline: the .hl7 file names as the directory lists them
  files,           \* pipeline: file name -> the messages split_messages finds in it
  include_annotated,   \* process_out_folder's include_annotated_bundle
  pstage,          \* pipeline: "idle" | "start" | "convert" | "evaluate" | "annotate"
                   \*           | "score" | "done" | "error"
  wi,              \* pipeline: position in the nested loops over files and messages
  bundles, scores, annotated,   \* pipeline: the three lists
  pnext_id,        \* pipeline: the ids new_id has handed out so far
  original_bundle, \* FHIR client: the message bundle maybe_send_to_iris is given
  enabled,         \* FHIR client: maybe_send_to_iris's enabled argument
  txn,             \* FHIR client: the transaction bundle built from the message bundle
  posts,           \* FHIR client: the requests.post calls made so far
  sret,            \* FHIR client: how the call ended: None or a Response returned,
                   \*              or an exception raised
  sstage,          \* FHIR client: "idle" | "call" | "post" | "returned" | "raised"
  fn,              \* helper call: the function that is called
  arg,             \* helper call: its argument(s)
  retval           \* helper call: what it returned, once it has

evalVars == <<bundle, steps, pc, si, ri, vi, values, numerator, denominator,
              weighted_num, weighted_den, critical_fails, details,
              cond_status, prereq_status, status, ran, raised, result, calls,
              returned>>
convVars == <<msg, cbundle, cstage, next_id, annotations>>
pipeVars == <<pipeline, listing, files, include_annotated, pstage, wi, bundles,
              scores, annotated, pnext_id>>
sendVars == <<original_bundle, enabled, txn, posts, sret, sstage>>
fnVars == <<fn, arg, retval>>
nonEvalVars == <<convVars, pipeVars, sendVars, fnVars>>
nonConvVars == <<evalVars, pipeVars, sendVars, fnVars>>
nonPipeVars == <<evalVars, convVars, sendVars, fnVars>>
nonSendVars == <<evalVars, convVars, pipeVars, fnVars>>
nonFnVars == <<evalVars, convVars, pipeVars, sendVars>>
vars == <<evalVars, convVars, pipeVars, sendVars, fnVars>>

NotRun == "NONE"
NoResult == [defined |-> FALSE]

\* ------------------------------------------------------------------------
\* evaluate_bundle
\* ------------------------------------------------------------------------
ResourceType(r) == IF HasKey(r, "resourceType") THEN r.kv["resourceType"] ELSE Str("Unknown")

\* lines 476-479, 493: by_type.get(rtype, [])
\* variant: the resources of a type taken in reverse bundle order
Reverse(q) == [i \in 1..Len(q) |-> q[Len(q) + 1 - i]]
by_type_reversed(b, rtype) ==
  Reverse(SelectSeq(b, LAMBDA r : ResourceType(r) = Str(rtype)))
by_type(b, rtype) == SelectSeq(b, LAMBDA r : ResourceType(r) = Str(rtype))

CurStep == steps[si]
Resources == by_type(bundle, CurStep.resource)
CurRes == Resources[ri]
CurVal == values[vi]

\* lines 500: `if step.condition`
HasCondition(step) == step.condition.sam # None

\* line 505: the step is scored only when the condition passed
\* variant: only a FAIL condition closes the gate
ConditionHolds_notFail(cs) == cs # "FAIL"
ConditionHolds(cs) == cs = "PASS"

\* variant: the values as extracted, nothing put in for an empty extraction
FanOut_asExtracted(res, path) == _extract_value(res, path)

\* lines 509-511
FanOut(res, path) ==
  LET vs == _extract_value(res, path) IN IF Len(vs) = 0 THEN <<Null>> ELSE vs

\* line 516
HasSamDef(step) == step.sam \in DOMAIN sam_defs
Prereq(step) == sam_defs[step.sam].prereq

\* _mk_detail; fan is the position of the value in the fan-out
_mk_detail(step, res, value, fan, sam, st) ==
  [stepId |-> step.id, resourceType |-> Get(res, "resourceType"),
   resourceId |-> Get(res, "id"), path |-> step.path, sam |-> sam, status |-> st,
   severity |-> IF step.critical THEN "critical" ELSE "standard",
   values |-> value, fan |-> fan]

\* variants: the denominators swap their increments
DenAfter_weight(den, step) == den + step.weight
WeightedDenAfter_one(wden, step) == wden + 1
\* lines 522-523 and 538-539
DenAfter(den, step) == den + 1
WeightedDenAfter(wden, step) == wden + step.weight
\* lines 540-542
NumAfter(num, step, st) == IF st = "PASS" THEN num + 1 ELSE num
WeightedNumAfter(wnum, step, st) == IF st = "PASS" THEN wnum + step.weight ELSE wnum
\* lines 524-528: a failed prerequisite
PrereqFailDetails(ds, step, res, value, fan, pr) ==
  IF step.effect = "Scoring" THEN Append(ds, _mk_detail(step, res, value, fan, pr, "FAIL"))
  ELSE ds
PrereqFailCritical(crit, step) ==
  IF step.effect = "Scoring" /\ step.critical THEN crit + 1 ELSE crit
\* lines 534-535: a skipped primary SAM
SkipDetails(ds, step, res, value, fan) ==
  Append(ds, _mk_detail(step, res, value, fan, step.sam, "SKIP"))
\* lines 543-546: a scored primary SAM
ScoredDetails(ds, step, res, value, fan, st) ==
  IF step.effect = "Scoring" THEN Append(ds, _mk_detail(step, res, value, fan, step.sam, st))
  ELSE ds
ScoredCritical(crit, step, st) ==
  IF step.effect = "Scoring" /\ step.critical /\ st = "FAIL" THEN crit + 1 ELSE crit

\* round(100.0 * n / d, 2) in hundredths.  A tie is rounded to the even
\* hundredth, which is what Python does when the quotient is a binary float.
Round2(n, d) ==
  LET q == (10000 * n) \div d
      r == (10000 * n) % d
  IN IF 2 * r < d THEN q
     ELSE IF 2 * r > d THEN q + 1
     ELSE IF q % 2 = 0 THEN q ELSE q + 1

\* lines 548-549, 554-555
Index(n, d) == IF d # 0 THEN [defined |-> TRUE, x100 |-> Round2(n, d)] ELSE NoResult

\* the loop positions after the body of `for v in values`
NextResource ==
  IF ri < Len(Resources)
  THEN pc' = "res" /\ ri' = ri + 1 /\ si' = si
  ELSE pc' = "step" /\ ri' = 0 /\ si' = si + 1

NextValue ==
  IF vi < Len(values)
  THEN pc' = "val" /\ vi' = vi + 1 /\ UNCHANGED <<si, ri, values>>
  ELSE vi' = 0 /\ values' = << >> /\ NextResource

EvalInit ==
  /\ bundle \in Bundles
  /\ steps \in Profiles
  /\ pc = "step" /\ si = 1 /\ ri = 0 /\ vi = 0
  /\ values = << >>
  /\ numerator = 0 /\ denominator = 0 /\ weighted_num = 0 /\ weighted_den = 0
  /\ critical_fails = 0
  /\ details = << >>
  /\ cond_status = NotRun /\ prereq_status = NotRun /\ status = NotRun
  /\ ran = << >>
  /\ raised = None
  /\ result = NoResult
  /\ calls = 1
  /\ returned = << >>

ConvIdle ==
  /\ msg = << >> /\ cbundle = << >> /\ cstage = "idle" /\ next_id = 0
  /\ annotations = 0

PipeIdle ==
  /\ pipeline = None /\ listing = << >> /\ files = << >>
  /\ include_annotated = FALSE /\ pstage = "idle" /\ wi = 0
  /\ bundles = << >> /\ scores = << >> /\ annotated = << >> /\ pnext_id = 0

NotSent == [kind |-> "pending"]
SendIdle ==
  /\ original_bundle = Null /\ enabled = FALSE /\ txn = Null
  /\ posts = 0 /\ sret = NotSent /\ sstage = "idle"

NotCalled == [kind |-> "pending"]
Returned(v) == [kind |-> "return", value |-> v]
FnIdle == fn = "none" /\ arg = << >> /\ retval = NotCalled

Counters == <<numerator, denominator, weighted_num, weighted_den, critical_fails>>
Statuses == <<cond_status, prereq_status, status>>

\* the profile after the SAM calls of a triple (step.params was passed) and of
\* a condition (step.condition's params were passed)
StepsAfterTriple(sams) == [steps EXCEPT ![si].params = ParamsAfter(sams, @)]
StepsAfterCondition(sams) ==
  [steps EXCEPT ![si].condition.params = ParamsAfter(sams, @)]

\* lines 493-496: the bundle has no resource of the step's type
StepNoResources ==
  /\ pc = "step" /\ si <= Len(steps)
  /\ Len(Resources) = 0
  /\ si' = si + 1
  /\ cond_status' = NotRun /\ prereq_status' = NotRun /\ status' = NotRun
  /\ ran' = << >>
  /\ UNCHANGED <<bundle, steps, pc, ri, vi, values, Counters, details, raised, result>>
  /\ UNCHANGED <<calls, returned>>
  /\ UNCHANGED nonEvalVars

\* line 498: the first resource of the step
StepBegin ==
  /\ pc = "step" /\ si <= Len(steps)
  /\ Len(Resources) > 0
  /\ pc' = "res" /\ ri' = 1
  /\ UNCHANGED <<bundle, steps, si, vi, values, Counters, details, Statuses, ran,
                 raised, result>>
  /\ UNCHANGED <<calls, returned>>
  /\ UNCHANGED nonEvalVars

\* the condition SAM runs on the list _extract_value returns (lines 503-504)
CondStatus ==
  _run_sam(CurStep.condition.sam, List(_extract_value(CurRes, CurStep.path)),
           CurRes, CurStep.condition.params)

\* lines 500-506: the condition did not pass
ConditionNotPass ==
  /\ pc = "res"
  /\ HasCondition(CurStep)
  /\ CondStatus # "RAISE"
  /\ ~ConditionHolds(CondStatus)
  /\ cond_status' = CondStatus /\ prereq_status' = NotRun /\ status' = NotRun
  /\ ran' = <<CurStep.condition.sam>>
  /\ NextResource
  /\ steps' = StepsAfterCondition(ran')
  /\ UNCHANGED <<bundle, vi, values, Counters, details, raised, result>>
  /\ UNCHANGED <<calls, returned>>
  /\ UNCHANGED nonEvalVars

\* lines 500-511: no condition, or it passed; fan out
ResourceBegin ==
  /\ pc = "res"
  /\ HasCondition(CurStep) => (CondStatus # "RAISE" /\ ConditionHolds(CondStatus))
  /\ cond_status' = IF HasCondition(CurStep) THEN CondStatus ELSE NotRun
  /\ prereq_status' = NotRun /\ status' = NotRun
  /\ ran' = IF HasCondition(CurStep) THEN <<CurStep.condition.sam>> ELSE << >>
  /\ values' = FanOut(CurRes, CurStep.path)
  /\ pc' = "val" /\ vi' = 1
  /\ steps' = StepsAfterCondition(ran')
  /\ UNCHANGED <<bundle, si, ri, Counters, details, raised, result>>
  /\ UNCHANGED <<calls, returned>>
  /\ UNCHANGED nonEvalVars

HasPrereq == HasSamDef(CurStep) /\ Prereq(CurStep) # None
PrereqStatus == _run_sam(Prereq(CurStep), CurVal, CurRes, CurStep.params)
PrimaryStatus == _run_sam(CurStep.sam, CurVal, CurRes, CurStep.params)
\* lines 516-529: the primary SAM is reached
PrimaryReached ==
  /\ HasSamDef(CurStep)
  /\ HasPrereq => PrereqStatus \notin {"SKIP", "FAIL", "RAISE"}

\* lines 518-520
PrereqSkip ==
  /\ pc = "val" /\ HasPrereq
  /\ PrereqStatus = "SKIP"
  /\ prereq_status' = "SKIP" /\ status' = NotRun
  /\ ran' = <<Prereq(CurStep)>>
  /\ NextValue
  /\ steps' = StepsAfterTriple(ran')
  /\ UNCHANGED <<bundle, Counters, details, cond_status, raised, result>>
  /\ UNCHANGED <<calls, returned>>
  /\ UNCHANGED nonEvalVars

\* lines 521-529
PrereqFail ==
  /\ pc = "val" /\ HasPrereq
  /\ PrereqStatus = "FAIL"
  /\ prereq_status' = "FAIL" /\ status' = NotRun
  /\ ran' = <<Prereq(CurStep)>>
  /\ denominator' = DenAfter(denominator, CurStep)
  /\ weighted_den' = WeightedDenAfter(weighted_den, CurStep)
  /\ details' = PrereqFailDetails(details, CurStep, CurRes, CurVal, vi, Prereq(CurStep))
  /\ critical_fails' = PrereqFailCritical(critical_fails, CurStep)
  /\ NextValue
  /\ steps' = StepsAfterTriple(ran')
  /\ UNCHANGED <<bundle, numerator, weighted_num, cond_status, raised, result>>
  /\ UNCHANGED <<calls, returned>>
  /\ UNCHANGED nonEvalVars

RanPrimary ==
  IF HasPrereq THEN <<Prereq(CurStep), CurStep.sam>> ELSE <<CurStep.sam>>

\* lines 532-536
PrimarySkip ==
  /\ pc = "val" /\ PrimaryReached
  /\ PrimaryStatus = "SKIP"
  /\ prereq_status' = (IF HasPrereq THEN PrereqStatus ELSE NotRun)
  /\ status' = "SKIP"
  /\ ran' = RanPrimary
  /\ details' = SkipDetails(details, CurStep, CurRes, CurVal, vi)
  /\ NextValue
  /\ steps' = StepsAfterTriple(ran')
  /\ UNCHANGED <<bundle, Counters, cond_status, raised, result>>
  /\ UNCHANGED <<calls, returned>>
  /\ UNCHANGED nonEvalVars

\* lines 538-546
PrimaryScored ==
  /\ pc = "val" /\ PrimaryReached
  /\ PrimaryStatus \notin {"SKIP", "RAISE"}
  /\ prereq_status' = (IF HasPrereq THEN PrereqStatus ELSE NotRun)
  /\ status' = PrimaryStatus
  /\ ran' = RanPrimary
  /\ denominator' = DenAfter(denominator, CurStep)
  /\ weighted_den' = WeightedDenAfter(weighted_den, CurStep)
  /\ numerator' = NumAfter(numerator, CurStep, PrimaryStatus)
  /\ weighted_num' = WeightedNumAfter(weighted_num, CurStep, PrimaryStatus)
  /\ details' = ScoredDetails(details, CurStep, CurRes, CurVal, vi, PrimaryStatus)
  /\ critical_fails' = ScoredCritical(critical_fails, CurStep, PrimaryStatus)
  /\ NextValue
  /\ steps' = StepsAfterTriple(ran')
  /\ UNCHANGED <<bundle, cond_status, raised, result>>
  /\ UNCHANGED <<calls, returned>>
  /\ UNCHANGED nonEvalVars

\* line 516: self.sam_defs.get(step.sam) is None, and None has no prereq
SamDefMissing ==
  /\ pc = "val" /\ ~HasSamDef(CurStep)
  /\ pc' = "error" /\ raised' = "sam_defs"
  /\ prereq_status' = NotRun /\ status' = NotRun /\ ran' = << >>
  /\ UNCHANGED <<bundle, steps, si, ri, vi, values, Counters, details, cond_status,
                 result>>
  /\ UNCHANGED <<calls, returned>>
  /\ UNCHANGED nonEvalVars

\* a SAM function raises; nothing in evaluate_bundle catches it
SamRaises ==
  /\ \/ /\ pc = "res" /\ HasCondition(CurStep) /\ CondStatus = "RAISE"
        /\ raised' = "condition" /\ ran' = <<CurStep.condition.sam>>
        /\ cond_status' = "RAISE" /\ prereq_status' = NotRun /\ status' = NotRun
     \/ /\ pc = "val" /\ HasPrereq /\ PrereqStatus = "RAISE"
        /\ raised' = "prereq" /\ ran' = <<Prereq(CurStep)>>
        /\ prereq_status' = "RAISE" /\ status' = NotRun /\ UNCHANGED cond_status
     \/ /\ pc = "val" /\ PrimaryReached /\ PrimaryStatus = "RAISE"
        /\ raised' = "primary" /\ ran' = RanPrimary
        /\ prereq_status' = (IF HasPrereq THEN PrereqStatus ELSE NotRun)
        /\ status' = "RAISE" /\ UNCHANGED cond_status
  /\ pc' = "error"
  /\ steps' = (IF pc = "val" THEN StepsAfterTriple(ran') ELSE StepsAfterCondition(ran'))
  /\ UNCHANGED <<bundle, si, ri, vi, values, Counters, details, result>>
  /\ UNCHANGED <<calls, returned>>
  /\ UNCHANGED nonEvalVars

\* lines 548-562
Finish ==
  /\ pc = "step" /\ si > Len(steps)
  /\ pc' = "done"
  /\ result' = [defined |-> TRUE,
                piqiIndex |-> Index(numerator, denominator),
                piqiWeightedIndex |-> Index(weighted_num, weighted_den),
                numerator |-> numerator, denominator |-> denominator,
                weightedNumerator |-> weighted_num,
                weightedDenominator |-> weighted_den,
                criticalFailureCount |-> critical_fails,
                details |-> details]
  /\ UNCHANGED <<bundle, steps, si, ri, vi, values, Counters, details, Statuses, ran,
                 raised>>
  /\ returned' = Append(returned, [bundle |-> bundle, steps |-> steps, result |-> result'])
  /\ UNCHANGED calls
  /\ UNCHANGED nonEvalVars

Next ==
  \/ StepNoResources
  \/ StepBegin
  \/ ConditionNotPass
  \/ ResourceBegin
  \/ PrereqSkip
  \/ PrereqFail
  \/ PrimarySkip
  \/ PrimaryScored
  \/ SamDefMissing
  \/ SamRaises
  \/ Finish

\* ------------------------------------------------------------------------
\* Several evaluations on one evaluator (process_out_folder calls
\* evaluator.evaluate_bundle once per message)
\* ------------------------------------------------------------------------
MaxCalls == 3

\* variant: the counters of the previous call are carried into the next
CarriedCounters == Counters
\* lines 485-489: the counters every call starts from
InitialCounters == <<0, 0, 0, 0, 0>>

\* the bundle of another message
OtherBundle == <<ResourcePool[2], ResourcePool[3]>>

\* the next call: the first call's bundle again, or another bundle
Reevaluate ==
  /\ pc = "done" /\ calls < MaxCalls
  /\ calls' = calls + 1
  /\ bundle' \in {returned[1].bundle, OtherBundle}
  /\ pc' = "step" /\ si' = 1 /\ ri' = 0 /\ vi' = 0
  /\ values' = << >>
  /\ numerator' = InitialCounters[1] /\ denominator' = InitialCounters[2]
  /\ weighted_num' = InitialCounters[3] /\ weighted_den' = InitialCounters[4]
  /\ critical_fails' = InitialCounters[5]
  /\ details' = << >>
  /\ cond_status' = NotRun /\ prereq_status' = NotRun /\ status' = NotRun
  /\ ran' = << >>
  /\ result' = NoResult
  /\ UNCHANGED <<steps, raised, returned>>
  /\ UNCHANGED nonEvalVars

CallsNext ==
  \/ StepNoResources
  \/ StepBegin
  \/ ConditionNotPass
  \/ ResourceBegin
  \/ PrereqSkip
  \/ PrereqFail
  \/ PrimarySkip
  \/ PrimaryScored
  \/ SamDefMissing
  \/ SamRaises
  \/ Finish
  \/ Reevaluate

CallsInit == EvalInit /\ ConvIdle /\ PipeIdle /\ SendIdle /\ FnIdle
CallsSpec == CallsInit /\ [][CallsNext]_vars

\* what a call returned, without the sequence of details
Scores(r) ==
  <<r.numerator, r.denominator, r.weightedNumerator, r.weightedDenominator,
    r.criticalFailureCount, r.piqiIndex, r.piqiWeightedIndex>>

\* C11: two evaluations of the same bundle under the same profile on one
\* evaluator, whatever was evaluated between them, return the same counters,
\* the same indices and the same sequence of details.
C11_Deterministic ==
  \A i \in 1..Len(returned) : \A j \in 1..Len(returned) :
     (returned[i].bundle = returned[j].bundle /\ returned[i].steps = returned[j].steps)
       => /\ Scores(returned[i].result) = Scores(returned[j].result)
          /\ returned[i].result.details = returned[j].result.details

C11_Witness ==
  /\ Len(returned) = 3
  /\ returned[1].bundle = returned[3].bundle
  /\ returned[2].bundle # returned[1].bundle
  /\ returned[1].result.denominator > 0 /\ returned[2].result.denominator > 0
  /\ Len(returned[1].result.details) > 0
  /\ returned[1].result # returned[2].result

\* ------------------------------------------------------------------------
\* HL7 messages: a message is its sequence of segments (parse_hl7's _order),
\* a segment is [seg, fields], a field is its sequence of ^-components.
\* ------------------------------------------------------------------------
EmptyField == << >>

\* variant: no lower guard, a negative list position counts from the end
get_field_wrap(fields, idx_1_based) ==
  IF idx_1_based - 1 >= Len(fields) \/ idx_1_based - 1 < 0 - Len(fields) THEN EmptyField
  ELSE IF idx_1_based - 1 < 0 THEN fields[Len(fields) + idx_1_based]
  ELSE fields[idx_1_based]

\* get_field: 1-based, "" when out of range
get_field(fields, idx_1_based) ==
  IF idx_1_based - 1 < 0 \/ idx_1_based - 1 >= Len(fields) THEN EmptyField
  ELSE fields[idx_1_based]

\* get_msh_field: the list starts at MSH-2
get_msh_field(msh_fields, msh_idx) ==
  IF msh_idx - 2 < 0 \/ msh_idx - 2 >= Len(msh_fields) THEN EmptyField
  ELSE msh_fields[msh_idx - 1]

\* comp: component i (1-based), "" when out of range
comp(field, i) == IF 0 <= i - 1 /\ i - 1 < Len(field) THEN field[i] ELSE ""

\* parse_hl7: out[seg], the segments named seg in message order
Segments(m, seg) == SelectSeq(m, LAMBDA sg : sg.seg = seg)

\* detect_message_type: <<MSH-9.1, MSH-9.2>> upper-cased
detect_message_type(m) ==
  IF Len(Segments(m, "MSH")) = 0 THEN <<"UNKNOWN">>
  ELSE LET ev == get_msh_field(Segments(m, "MSH")[1].fields, 9)
       IN <<Upper(comp(ev, 1)), Upper(comp(ev, 2))>>

\* msg_type.startswith("ORU^") and the like
StartsWith(msg_type, code) == Len(msg_type) = 2 /\ msg_type[1] = code

\* new_id: the n-th id handed out, with its prefix
new_id(prefix, n) == [prefix |-> prefix, n |-> n]

\* a reference string "<ResourceType>/<id>"
Ref(rtype, id) == [type |-> rtype, id |-> id]
NoRef == [type |-> None]
NoId == [prefix |-> None, n |-> 0]
NoneRes == [resourceType |-> None]
Opt(r) == IF r = NoneRes THEN << >> ELSE <<r>>

build_message_header(msh_fields, n) ==
  [resourceType |-> "MessageHeader", id |-> new_id("msg", n),
   eventCoding |-> <<comp(get_msh_field(msh_fields, 9), 1),
                     comp(get_msh_field(msh_fields, 9), 2)>>]

build_patient_from_pid(pid_fields, n) ==
  [resourceType |-> "Patient", id |-> new_id("pat", n),
   family |-> comp(get_field(pid_fields, 5), 1)]

build_encounter_from_pv1(pv1_fields, patient_ref, n) ==
  [resourceType |-> "Encounter", id |-> new_id("enc", n), status |-> "finished",
   class |-> IF comp(get_field(pv1_fields, 2), 1) # ""
             THEN comp(get_field(pv1_fields, 2), 1) ELSE "UNK",
   subject |-> patient_ref]

\* the value types of the model's OBX segments are TX/ST (valueString)
build_observation_from_obx(obx_fields, patient_ref, encounter_ref, n) ==
  [resourceType |-> "Observation", id |-> new_id("obs", n), status |-> "final",
   valueString |-> comp(get_field(obx_fields, 5), 1)]
  @@ (IF patient_ref # NoRef THEN [subject |-> patient_ref] ELSE << >>)
  @@ (IF encounter_ref # NoRef THEN [encounter |-> encounter_ref] ELSE << >>)

build_diagnostic_report_from_obr(obr_fields, patient_ref, encounter_ref, observations_refs, n) ==
  [resourceType |-> "DiagnosticReport", id |-> new_id("dr", n), status |-> "final",
   code |-> IF comp(get_field(obr_fields, 4), 1) # ""
            THEN comp(get_field(obr_fields, 4), 1) ELSE "Diagnostic Report",
   result |-> observations_refs]
  @@ (IF patient_ref # NoRef THEN [subject |-> patient_ref] ELSE << >>)
  @@ (IF encounter_ref # NoRef THEN [encounter |-> encounter_ref] ELSE << >>)

\* convert_oru lines 593-602: no OBR; "subject" is None without a patient
synthesized_report(patient_ref, encounter_ref, obs_refs, n) ==
  [resourceType |-> "DiagnosticReport", id |-> new_id("dr", n), status |-> "final",
   code |-> "Diagnostic Report", subject |-> patient_ref, result |-> obs_refs]
  @@ (IF encounter_ref # NoRef THEN [encounter |-> encounter_ref] ELSE << >>)

build_account_from_ft1(ft1_fields, patient_ref, encounter_ref, n) ==
  [resourceType |-> "Claim", id |-> new_id("claim", n), status |-> "active",
   productOrService |-> <<comp(get_field(ft1_fields, 6), 1),
                          comp(get_field(ft1_fields, 7), 1)>>]
  @@ (IF patient_ref # NoRef THEN [patient |-> patient_ref] ELSE << >>)
  @@ (IF encounter_ref # NoRef THEN [encounter |-> encounter_ref] ELSE << >>)

\* `parsed["PID"][0]["_fields"] if parsed.get("PID") else None`, then `if pid`:
\* the first segment's fields, when there is one and the list is not empty
FirstFields(m, seg) ==
  IF Len(Segments(m, seg)) > 0 THEN Segments(m, seg)[1].fields ELSE << >>

\* the common head of convert_oru / convert_adt / convert_dft (lines 576-584):
\* header, patient, encounter and the ids used, starting after id n
ConvHead(m, n) ==
  LET pid == FirstFields(m, "PID")
      pv1 == FirstFields(m, "PV1")
      msg_header == build_message_header(FirstFields(m, "MSH"), n + 1)
      patient == IF Len(pid) > 0 THEN build_patient_from_pid(pid, n + 2) ELSE NoneRes
      n1 == IF patient = NoneRes THEN n + 1 ELSE n + 2
      patient_ref == IF patient = NoneRes THEN NoRef ELSE Ref("Patient", patient.id)
      encounter == IF Len(pv1) > 0 /\ patient_ref # NoRef
                   THEN build_encounter_from_pv1(pv1, patient_ref, n1 + 1) ELSE NoneRes
      n2 == IF encounter = NoneRes THEN n1 ELSE n1 + 1
      encounter_ref == IF encounter = NoneRes THEN NoRef
                       ELSE Ref("Encounter", encounter.id)
  IN [msg_header |-> msg_header, patient |-> patient, patient_ref |-> patient_ref,
      encounter |-> encounter, encounter_ref |-> encounter_ref, n |-> n2]

\* lines 586-588, 629-631
Observations(m, h) ==
  [i \in 1..Len(Segments(m, "OBX")) |->
     build_observation_from_obx(Segments(m, "OBX")[i].fields, h.patient_ref,
                                h.encounter_ref, h.n + i)]
\* variant: the references in reverse order
ObsRefs_reversed(observations) ==
  [i \in 1..Len(observations) |->
     Ref("Observation", observations[Len(observations) + 1 - i].id)]
\* line 588
ObsRefs(observations) ==
  [i \in 1..Len(observations) |-> Ref("Observation", observations[i].id)]

\* variants: the encounter left out of the entries; the report after the
\* observations
ReportEntries_noEncounter(msg_header, patient, encounter, dr, observations) ==
  <<msg_header>> \o Opt(patient) \o Opt(dr) \o observations
ReportEntries_reportLast(msg_header, patient, encounter, dr, observations) ==
  <<msg_header>> \o Opt(patient) \o Opt(encounter) \o observations \o Opt(dr)
\* lines 604-609, 638-643
ReportEntries(msg_header, patient, encounter, dr, observations) ==
  <<msg_header>> \o Opt(patient) \o Opt(encounter) \o Opt(dr) \o observations
\* lines 660-664
ClaimEntries(msg_header, patient, encounter, claims) ==
  <<msg_header>> \o Opt(patient) \o Opt(encounter) \o claims

\* each converter: [entry, n] with n the last id used (the bundle's own)
convert_oru(m, n) ==
  LET h == ConvHead(m, n)
      observations == Observations(m, h)
      nd == h.n + Len(observations) + 1
      dr == IF Len(Segments(m, "OBR")) > 0
            THEN build_diagnostic_report_from_obr(Segments(m, "OBR")[1].fields,
                   h.patient_ref, h.encounter_ref, ObsRefs(observations), nd)
            ELSE synthesized_report(h.patient_ref, h.encounter_ref,
                                    ObsRefs(observations), nd)
  IN [entry |-> ReportEntries(h.msg_header, h.patient, h.encounter, dr, observations),
      n |-> nd + 1]

convert_adt(m, n) ==
  LET h == ConvHead(m, n)
      observations == Observations(m, h)
      hasObr == Len(Segments(m, "OBR")) > 0
      nd == IF hasObr THEN h.n + Len(observations) + 1 ELSE h.n + Len(observations)
      dr == IF hasObr
            THEN build_diagnostic_report_from_obr(Segments(m, "OBR")[1].fields,
                   h.patient_ref, h.encounter_ref, ObsRefs(observations), nd)
            ELSE NoneRes
  IN [entry |-> ReportEntries(h.msg_header, h.patient, h.encounter, dr, observations),
      n |-> nd + 1]

convert_dft(m, n) ==
  LET h == ConvHead(m, n)
      claims == [i \in 1..Len(Segments(m, "FT1")) |->
                   build_account_from_ft1(Segments(m, "FT1")[i].fields, h.patient_ref,
                                          h.encounter_ref, h.n + i)]
  IN [entry |-> ClaimEntries(h.msg_header, h.patient, h.encounter, claims),
      n |-> h.n + Len(claims) + 1]

\* variant: the patient is built when the first PID has fields, as in
\* convert_oru
convert_fallback_ifFields(m, n) ==
  LET mh == build_message_header(FirstFields(m, "MSH"), n + 1)
      patient == IF Len(FirstFields(m, "PID")) > 0
                 THEN build_patient_from_pid(FirstFields(m, "PID"), n + 2)
                 ELSE NoneRes
  IN [entry |-> <<mh>> \o Opt(patient),
      n |-> IF patient = NoneRes THEN n + 2 ELSE n + 3]

\* convert_message_to_bundle lines 687-695: `if parsed.get("PID")`
convert_fallback(m, n) ==
  LET mh == build_message_header(FirstFields(m, "MSH"), n + 1)
      patient == IF Len(Segments(m, "PID")) > 0
                 THEN build_patient_from_pid(Segments(m, "PID")[1].fields, n + 2)
                 ELSE NoneRes
  IN [entry |-> <<mh>> \o Opt(patient),
      n |-> IF patient = NoneRes THEN n + 2 ELSE n + 3]

convert_message_to_bundle(m, n) ==
  LET msg_type == detect_message_type(m)
  IN IF StartsWith(msg_type, "ORU") THEN convert_oru(m, n)
     ELSE IF StartsWith(msg_type, "ADT") THEN convert_adt(m, n)
     ELSE IF StartsWith(msg_type, "DFT") THEN convert_dft(m, n)
     ELSE convert_fallback(m, n)

\* ------------------------------------------------------------------------
\* Annotation
\* ------------------------------------------------------------------------
\* build_piqi_observation lines 451-458: the first resource of a type with a
\* truthy id, or None
FirstId(entries, rtype) ==
  LET hits == SelectSeq(entries, LAMBDA r : r.resourceType = rtype)
  IN IF Len(hits) > 0 THEN hits[1].id ELSE NoId

\* build_piqi_observation(piqi_result, bundle, profile_name)
build_piqi_observation(piqi_result, entries, profile_name, n) ==
  [resourceType |-> "Observation", id |-> new_id("piqi", n), status |-> "final",
   code |-> "PIQI-INDEX",
   value |-> piqi_result.piqiIndex,
   identifier |-> piqi_result.messageId,
   profile |-> profile_name,
   component |-> piqi_result.component]
  @@ (IF FirstId(entries, "Patient") # NoId
      THEN [subject |-> Ref("Patient", FirstId(entries, "Patient"))] ELSE << >>)
  @@ (IF FirstId(entries, "MessageHeader") # NoId
      THEN [sourceMessage |-> Ref("MessageHeader", FirstId(entries, "MessageHeader"))]
      ELSE << >>)

\* the PIQI result handed to the annotator, under a profile whose steps are on
\* the Patient: evaluate_bundle's messageId is the id of the bundle's first
\* MessageHeader (lines 481-483), and without a Patient nothing is scored and
\* piqiIndex is None; component holds numerator, denominator and
\* criticalFailureCount
PiqiResults(entries) ==
  { IF FirstId(entries, "Patient") # NoId
    THEN [piqiIndex |-> "50.0", messageId |-> FirstId(entries, "MessageHeader"),
          component |-> <<1, 2, 1>>]
    ELSE [piqiIndex |-> None, messageId |-> FirstId(entries, "MessageHeader"),
          component |-> <<0, 0, 0>>] }

\* what build_piqi_observation reads from a bundle passed as piqi_result:
\* it has none of the result's keys
BundleAsPiqi == [piqiIndex |-> None, messageId |-> NoId, component |-> << >>]

\* ------------------------------------------------------------------------
\* Converter inputs
\* ------------------------------------------------------------------------
F(s) == <<s>>
Msh(ev) ==
  [seg |-> "MSH",
   fields |-> <<F("^~\\&"), F("APP"), F("FAC"), F("RCV"), F("RCFAC"),
                F("20230102030405"), EmptyField, ev>>]
\* a header line that ends before MSH-9
ShortMsh == [seg |-> "MSH", fields |-> <<F("^~\\&"), F("APP")>>]
\* (the ORU header is in lower case: detect_message_type upper-cases it)
MshPool ==
  { Msh(<<"oru", "R01">>), Msh(<<"ADT", "A01">>), Msh(<<"DFT", "P03">>),
    Msh(<<"ACK">>), Msh(EmptyField), ShortMsh }
SegmentPool ==
  { [seg |-> "PID", fields |-> <<F("1"), EmptyField, F("RAD0000001"), EmptyField,
                                 <<"DOE", "JOHN">>>>],
    [seg |-> "PID", fields |-> << >>],
    [seg |-> "PV1", fields |-> <<F("1"), F("I")>>],
    [seg |-> "OBR", fields |-> <<F("1"), F("P"), F("F"), <<"71045", "Chest X-ray", "CPT">>>>],
    [seg |-> "OBR", fields |-> <<F("2"), F("P"), F("F"), <<"24331-1", "Lipid panel", "LN">>>>],
    [seg |-> "OBX", fields |-> <<F("1"), F("ST"), F("8480-6"), EmptyField, F("a")>>],
    [seg |-> "OBX", fields |-> <<F("2"), F("TX"), F("8462-4"), EmptyField, F("b")>>],
    [seg |-> "FT1", fields |-> <<F("1"), EmptyField, EmptyField, F("20230101"),
                                 EmptyField, F("CODE1"), F("DESC1")>>],
    [seg |-> "FT1", fields |-> <<F("2"), EmptyField, EmptyField, F("20230102"),
                                 EmptyField, F("CODE2"), F("DESC2")>>] }

Messages ==
  { <<h>> \o body : h \in MshPool,
                    body \in UNION { [1..k -> SegmentPool] : k \in 0..MaxSegs } }

EvalIdle ==
  /\ bundle = << >> /\ steps = << >>
  /\ pc = "idle" /\ si = 0 /\ ri = 0 /\ vi = 0
  /\ values = << >>
  /\ numerator = 0 /\ denominator = 0 /\ weighted_num = 0 /\ weighted_den = 0
  /\ critical_fails = 0
  /\ details = << >>
  /\ cond_status = NotRun /\ prereq_status = NotRun /\ status = NotRun
  /\ ran = << >>
  /\ raised = None
  /\ result = NoResult
  /\ calls = 0
  /\ returned = << >>

ConvInit ==
  /\ EvalIdle /\ PipeIdle /\ SendIdle /\ FnIdle
  /\ msg \in Messages
  /\ cbundle = << >>
  /\ cstage = "parsed"
  /\ next_id = 0
  /\ annotations = 0

\* convert_message_to_bundle
Convert ==
  /\ cstage = "parsed"
  /\ cbundle' = convert_message_to_bundle(msg, next_id).entry
  /\ next_id' = convert_message_to_bundle(msg, next_id).n
  /\ cstage' = "converted"
  /\ UNCHANGED <<msg, annotations, nonConvVars>>

MaxAnnotations == 2

\* variant: a PIQI Observation already at the end is replaced
AppendEntry_dedup(entries, obs) ==
  IF Len(entries) > 0 /\ entries[Len(entries)].resourceType = "Observation"
     /\ "code" \in DOMAIN entries[Len(entries)]
     /\ entries[Len(entries)].code = "PIQI-INDEX"
  THEN [entries EXCEPT ![Len(entries)] = obs]
  ELSE Append(entries, obs)
\* bundle.setdefault("entry", []).append({"resource": piqi_obs})
AppendEntry(entries, obs) == Append(entries, obs)

\* hl7_out_to_piqi.add_piqi_to_bundle(bundle, piqi, profile_name)
add_piqi_to_bundle ==
  /\ cstage \in {"converted", "annotated"} /\ annotations < MaxAnnotations
  /\ \E piqi \in PiqiResults(cbundle) :
       cbundle' = AppendEntry(cbundle,
                     build_piqi_observation(piqi, cbundle, "profile", next_id + 1))
  /\ next_id' = next_id + 1
  /\ annotations' = annotations + 1
  /\ cstage' = "annotated"
  /\ UNCHANGED <<msg, nonConvVars>>

\* fhir_annotate.add_piqi_to_bundle(bundle, piqi): it calls
\* build_piqi_observation(bundle, piqi), the bundle in the result's place and the
\* result, which has no "entry", in the bundle's
annotate_add_piqi_to_bundle ==
  /\ cstage \in {"converted", "annotated"} /\ annotations < MaxAnnotations
  /\ cbundle' = AppendEntry(cbundle,
                   build_piqi_observation(BundleAsPiqi, << >>, None, next_id + 1))
  /\ next_id' = next_id + 1
  /\ annotations' = annotations + 1
  /\ cstage' = "annotated"
  /\ UNCHANGED <<msg, nonConvVars>>

ConvNext ==
  \/ Convert
  \/ add_piqi_to_bundle
  \/ annotate_add_piqi_to_bundle

ConvSpec == ConvInit /\ [][ConvNext]_vars

Init == EvalInit /\ ConvIdle /\ PipeIdle /\ SendIdle /\ FnIdle
Spec == Init /\ [][Next]_vars

\* ------------------------------------------------------------------------
\* The pipelines: hl7_out_to_piqi.process_out_folder and process_hl7.__main__
\* ------------------------------------------------------------------------
MaxMsgs == 2

FileNames == {"a.hl7", "b.hl7"}
\* the order of Path objects
NameRank(name) == IF name = "a.hl7" THEN 1 ELSE 2
NameLess(a, b) == NameRank(a) < NameRank(b)

\* variant: the files taken as the directory lists them
unsorted(names) == names
\* sorted(out_dir.glob("*.hl7"))
sorted(names) == SortSeq(names, NameLess)

PID1 == [seg |-> "PID", fields |-> <<F("1"), EmptyField, F("RAD0000001"), EmptyField, <<"DOE", "JOHN">>>>]
OBX1 == [seg |-> "OBX", fields |-> <<F("1"), F("ST"), F("8480-6"), EmptyField, F("a")>>]
FT11 == [seg |-> "FT1", fields |-> <<F("1"), EmptyField, EmptyField, F("20230101"), EmptyField, F("CODE1"), F("DESC1")>>]
PipeMessages ==
  { <<Msh(<<"ORU", "R01">>), PID1, OBX1>>,
    <<Msh(<<"DFT", "P03">>), FT11>>,
    <<Msh(<<"ACK">>), PID1>> }

Listings == { << >>, <<"a.hl7">>, <<"b.hl7">>, <<"a.hl7", "b.hl7">>, <<"b.hl7", "a.hl7">> }
FileContents == UNION { [1..k -> PipeMessages] : k \in 0..MaxMsgs }

\* `for hl7_path in hl7_files: for idx, msg in enumerate(messages, start=1)`:
\* the iterations of the inner loop body, in order
RECURSIVE Work(_, _)
Work(names, content) ==
  IF Len(names) = 0 THEN << >>
  ELSE [idx \in 1..Len(content[Head(names)]) |->
          [file |-> Head(names), idx |-> idx, msg |-> content[Head(names)][idx]]]
       \o Work(Tail(names), content)

CurWork == Work(sorted(listing), files)[wi]

\* lines 162-187: the converted bundle with its three meta tags
TaggedBundle(item, n) ==
  [entry |-> convert_message_to_bundle(item.msg, n).entry,
   tag |-> <<item.file, item.idx, detect_message_type(item.msg)>>]

\* lines 192-198: evaluate_bundle's result with its four tags
TaggedScore(b, item) ==
  [messageId |-> FirstId(b.entry, "MessageHeader"),
   piqiIndex |-> "50.0", component |-> <<1, 2>>,
   _source_file |-> item.file, _source_index |-> item.idx,
   _hl7_msg_type |-> detect_message_type(item.msg), _profile_name |-> "profile"]

\* variant: the bundle annotated is the one held by the raw list
RawAfterAnnotation_inPlace(b, annotated_b) == annotated_b
\* line 203: copy.deepcopy(bundle) is annotated, the bundle in `bundles` is
\* another object
RawAfterAnnotation(b, annotated_b) == b

PipeInit ==
  /\ EvalIdle /\ ConvIdle /\ SendIdle /\ FnIdle
  /\ pipeline \in {"process_out_folder", "process_hl7"}
  /\ listing \in Listings
  /\ files \in [FileNames -> FileContents]
  /\ \A name \in FileNames : (\A i \in 1..Len(listing) : listing[i] # name) => files[name] = << >>
  /\ include_annotated \in BOOLEAN
  /\ pipeline = "process_hl7" => include_annotated
  /\ pstage = "start" /\ wi = 0
  /\ bundles = << >> /\ scores = << >> /\ annotated = << >>
  /\ pnext_id = 0

Advance ==
  /\ wi' = wi + 1
  /\ pstage' = IF wi + 1 > Len(Work(sorted(listing), files)) THEN "done" ELSE "convert"

\* lines 153-155: no .hl7 file
NoFiles ==
  /\ pstage = "start" /\ pipeline = "process_out_folder"
  /\ Len(sorted(listing)) = 0
  /\ pstage' = "error"
  /\ UNCHANGED <<pipeline, listing, files, include_annotated, wi, bundles, scores,
                 annotated, pnext_id>>
  /\ UNCHANGED nonPipeVars

\* lines 153-161: the loops are entered
StartFiles ==
  /\ pstage = "start" /\ pipeline = "process_out_folder"
  /\ Len(sorted(listing)) > 0
  /\ wi' = 1
  /\ pstage' = IF Len(Work(sorted(listing), files)) = 0 THEN "done" ELSE "convert"
  /\ UNCHANGED <<pipeline, listing, files, include_annotated, bundles, scores,
                 annotated, pnext_id>>
  /\ UNCHANGED nonPipeVars

\* lines 162-189
PipeConvert ==
  /\ pstage = "convert"
  /\ bundles' = Append(bundles, TaggedBundle(CurWork, pnext_id))
  /\ pnext_id' = convert_message_to_bundle(CurWork.msg, pnext_id).n
  /\ pstage' = "evaluate"
  /\ UNCHANGED <<pipeline, listing, files, include_annotated, wi, scores, annotated>>
  /\ UNCHANGED nonPipeVars

\* lines 192-199, and line 202 when no annotated bundle is asked for
PipeEvaluate ==
  /\ pstage = "evaluate"
  /\ scores' = Append(scores, TaggedScore(bundles[Len(bundles)], CurWork))
  /\ IF include_annotated
     THEN pstage' = "annotate" /\ wi' = wi
     ELSE Advance
  /\ UNCHANGED <<pipeline, listing, files, include_annotated, bundles, annotated,
                 pnext_id>>
  /\ UNCHANGED nonPipeVars

\* line 192: evaluate_bundle raises and nothing catches it
PipeEvaluateRaises ==
  /\ pstage = "evaluate"
  /\ pstage' = "error"
  /\ UNCHANGED <<pipeline, listing, files, include_annotated, wi, bundles, scores,
                 annotated, pnext_id>>
  /\ UNCHANGED nonPipeVars

\* lines 202-203
PipeAnnotate ==
  /\ pstage = "annotate"
  /\ LET b == bundles[Len(bundles)]
         annotated_b ==
           [b EXCEPT !.entry =
              AppendEntry(@, build_piqi_observation(scores[Len(scores)], @, "profile",
                                                    pnext_id + 1))]
     IN /\ annotated' = Append(annotated, annotated_b)
        /\ bundles' = [bundles EXCEPT ![Len(bundles)] = RawAfterAnnotation(b, annotated_b)]
  /\ pnext_id' = pnext_id + 1
  /\ Advance
  /\ UNCHANGED <<pipeline, listing, files, include_annotated, scores>>
  /\ UNCHANGED nonPipeVars

\* process_hl7 line 44: convert_file(args.hl7) converts every message of the file
\* (each element is the pair convert_message_to_bundle returns)
RECURSIVE ConvertAll(_, _)
ConvertAll(messages, n) ==
  IF Len(messages) = 0 THEN << >>
  ELSE <<[entry |-> convert_message_to_bundle(Head(messages), n).entry,
          msg_type |-> detect_message_type(Head(messages))]>>
       \o ConvertAll(Tail(messages), convert_message_to_bundle(Head(messages), n).n)
RECURSIVE IdsAfter(_, _)
IdsAfter(messages, n) ==
  IF Len(messages) = 0 THEN n
  ELSE IdsAfter(Tail(messages), convert_message_to_bundle(Head(messages), n).n)

convert_file ==
  /\ pstage = "start" /\ pipeline = "process_hl7"
  /\ Len(listing) > 0
  /\ bundles' = ConvertAll(files[listing[1]], pnext_id)
  /\ pnext_id' = IdsAfter(files[listing[1]], pnext_id)
  /\ wi' = 1
  /\ pstage' = IF Len(files[listing[1]]) = 0 THEN "done" ELSE "score"
  /\ UNCHANGED <<pipeline, listing, files, include_annotated, scores, annotated>>
  /\ UNCHANGED nonPipeVars

\* process_hl7 lines 49-55 and piqi_score lines 28-32: PIQIEvaluator has no
\* profile_path and no plausibility_path parameter, the call is a TypeError
score_bundle ==
  /\ pstage = "score"
  /\ pstage' = "error"
  /\ UNCHANGED <<pipeline, listing, files, include_annotated, wi, bundles, scores,
                 annotated, pnext_id>>
  /\ UNCHANGED nonPipeVars

PipeNext ==
  \/ NoFiles
  \/ StartFiles
  \/ PipeConvert
  \/ PipeEvaluate
  \/ PipeEvaluateRaises
  \/ PipeAnnotate
  \/ convert_file
  \/ score_bundle

PipeSpec == PipeInit /\ [][PipeNext]_vars

\* ------------------------------------------------------------------------
\* The FHIR client: fhir_convert_backend.maybe_send_to_iris
\* ------------------------------------------------------------------------
MaxTxnEntries == 2

\* res.pop("meta", None); res.pop("text", None) on the dict `res`
Popped(res) == Dict([k \in DOMAIN res.kv \ {"meta", "text"} |-> res.kv[k]])

\* _strip_meta: a copy of `res or {}` without the two keys
_strip_meta(res) == Popped(Or(res, EmptyDict))

\* variant: the keys are popped from the caller's dict
ResourceAfterStrip_inPlace(res) == Popped(res)
\* line 723: `res = dict(res or {})` rebinds the name to a copy, the caller's
\* dict keeps its keys
ResourceAfterStrip(res) == res

\* f"{rtype}/{rid}" for two strings
Url(rtype, rid) == Str(rtype.s \o "/" \o rid.s)

\* lines 734-743: the loop over the entries, `continue` skipping an entry
RECURSIVE TxnEntries(_)
TxnEntries(es) ==
  IF Len(es) = 0 THEN << >>
  ELSE LET r == _strip_meta(Or(Get(Head(es), "resource"), EmptyDict))
           rtype == Get(r, "resourceType")
           rid == Get(r, "id")
       IN IF ~Truthy(rtype) \/ ~Truthy(rid)
          THEN TxnEntries(Tail(es))
          ELSE <<Dict([resource |-> r,
                       request |-> Dict([method |-> Str("PUT"),
                                         url |-> Url(rtype, rid)])])>>
               \o TxnEntries(Tail(es))

\* original_bundle.get("entry", [])
EntriesOf(b) == IF HasKey(b, "entry") THEN b.kv.entry.items ELSE << >>

_bundle_to_transaction(b) ==
  Dict([resourceType |-> Str("Bundle"), type |-> Str("transaction"),
        entry |-> List(TxnEntries(EntriesOf(b)))])

\* the caller's bundle once _bundle_to_transaction has returned: _strip_meta
\* was given each resource that is a non-empty dict
BundleAfterTransaction(b) ==
  IF ~HasKey(b, "entry") THEN b
  ELSE [b EXCEPT !.kv.entry.items =
          [i \in 1..Len(@) |->
             IF HasKey(@[i], "resource") /\ Truthy(@[i].kv.resource)
             THEN [@[i] EXCEPT !.kv.resource = ResourceAfterStrip(@)]
             ELSE @[i]]]

Generated == Dict([status |-> Str("generated")])
Versioned == Dict([versionId |-> Str("1")])
TxnEntryPool ==
  { Dict([fullUrl |-> Str("urn:uuid:1"),
          resource |-> Dict([resourceType |-> Str("Patient"), id |-> Str("p1"),
                             meta |-> Versioned, text |-> Generated,
                             gender |-> Str("male")])]),
    Dict([resource |-> Dict([resourceType |-> Str("Observation"), id |-> Str("o1"),
                             status |-> Str("final")])]),
    Dict([resource |-> Dict([resourceType |-> Str("Patient"), meta |-> Versioned])]),
    Dict([resource |-> Dict([id |-> Str("x1"), text |-> Generated])]),
    Dict([resource |-> Dict([resourceType |-> Str(""), id |-> Str("p2")])]),
    Dict([resource |-> Dict([resourceType |-> Str("Claim"), id |-> Str(""),
                             meta |-> Versioned])]),
    Dict([fullUrl |-> Str("urn:uuid:7")]),
    Dict([resource |-> Null]) }

MessageBundle(es) ==
  Dict([resourceType |-> Str("Bundle"), type |-> Str("message"), entry |-> List(es)])
SendBundles ==
  { Dict([resourceType |-> Str("Bundle"), type |-> Str("message")]) }
  \cup { MessageBundle(es) : es \in UNION { [1..k -> TxnEntryPool] : k \in 0..MaxTxnEntries } }

\* what requests.post does: a response with a status code, or an exception
StatusCodes == {200, 400, 500}
TransportErrors == {"Timeout", "ConnectionError"}

SendInit ==
  /\ EvalIdle /\ ConvIdle /\ PipeIdle /\ FnIdle
  /\ original_bundle \in SendBundles
  /\ enabled \in BOOLEAN
  /\ txn = Null /\ posts = 0 /\ sret = NotSent /\ sstage = "call"

\* lines 762-763
maybe_send_to_iris_disabled ==
  /\ sstage = "call" /\ ~enabled
  /\ sret' = [kind |-> "None"]
  /\ sstage' = "returned"
  /\ UNCHANGED <<original_bundle, enabled, txn, posts>>
  /\ UNCHANGED nonSendVars

\* line 764
maybe_send_to_iris_enabled ==
  /\ sstage = "call" /\ enabled
  /\ txn' = _bundle_to_transaction(original_bundle)
  /\ original_bundle' = BundleAfterTransaction(original_bundle)
  /\ sstage' = "post"
  /\ UNCHANGED <<enabled, posts, sret>>
  /\ UNCHANGED nonSendVars

\* variant: a server error sends the transaction again
AfterResponse_retry(status_code) == IF status_code >= 500 THEN "post" ELSE "returned"
\* line 765: the response is returned, whatever its status
AfterResponse(status_code) == "returned"

\* lines 749-755 and 765: requests.post answers
_post_transaction ==
  /\ sstage = "post"
  /\ posts' = posts + 1
  /\ \E status_code \in StatusCodes :
       /\ sret' = [kind |-> "Response", status_code |-> status_code]
       /\ sstage' = AfterResponse(status_code)
  /\ UNCHANGED <<original_bundle, enabled, txn>>
  /\ UNCHANGED nonSendVars

\* lines 749-755: requests.post raises (the 30 s timeout, a refused connection);
\* neither _post_transaction nor maybe_send_to_iris catches it
_post_transaction_raises ==
  /\ sstage = "post"
  /\ posts' = posts + 1
  /\ \E exc \in TransportErrors : sret' = [kind |-> "raise", exc |-> exc]
  /\ sstage' = "raised"
  /\ UNCHANGED <<original_bundle, enabled, txn>>
  /\ UNCHANGED nonSendVars

SendNext ==
  \/ maybe_send_to_iris_disabled
  \/ maybe_send_to_iris_enabled
  \/ _post_transaction
  \/ _post_transaction_raises

SendSpec == SendInit /\ [][SendNext]_vars

\* ------------------------------------------------------------------------
\* Calls of the helper functions, one call per behaviour: the function and its
\* argument are drawn at the start, the action of the function returns
\* ------------------------------------------------------------------------
MaxDen == 32

\* evaluate_bundle lines 548-555 on the counters it has accumulated: a
\* numerator that is at most the denominator
IndexCalls ==
  { [fn |-> "index", arg |-> nd] :
      nd \in { p \in (0..MaxDen) \X (0..MaxDen) : p[1] <= p[2] } }

compute_index ==
  /\ fn = "index" /\ retval = NotCalled
  /\ retval' = Returned(Index(arg[1], arg[2]))
  /\ UNCHANGED <<fn, arg>>
  /\ UNCHANGED nonFnVars

\* parse_segment: a line split at "|", the segment name and the fields after it
parse_segment(parts) == [seg |-> parts[1], fields |-> Tail(parts)]

MaxIdx == 10

\* the lines of the accessor calls: a header line and a PID line, cut after
\* any of their fields
MshLine == <<"MSH">> \o Msh(<<"ORU", "R01">>).fields
PidLine == <<"PID", F("1"), EmptyField, F("RAD0000001"), EmptyField, <<"DOE", "JOHN">>>>
Cuts(line) == { SubSeq(line, 1, k) : k \in 1..Len(line) }

GetFieldCalls ==
  { [fn |-> "get_field", arg |-> <<parts, n>>] :
      parts \in Cuts(PidLine), n \in (0 - MaxIdx)..MaxIdx }
GetMshFieldCalls ==
  { [fn |-> "get_msh_field", arg |-> <<parts, n>>] :
      parts \in Cuts(MshLine), n \in (0 - MaxIdx)..MaxIdx }

call_get_field ==
  /\ fn = "get_field" /\ retval = NotCalled
  /\ retval' = Returned(get_field(parse_segment(arg[1]).fields, arg[2]))
  /\ UNCHANGED <<fn, arg>>
  /\ UNCHANGED nonFnVars

call_get_msh_field ==
  /\ fn = "get_msh_field" /\ retval = NotCalled
  /\ retval' = Returned(get_msh_field(parse_segment(arg[1]).fields, arg[2]))
  /\ UNCHANGED <<fn, arg>>
  /\ UNCHANGED nonFnVars

\* ------------------------------------------------------------------------
\* Text handled character by character: a string is the sequence of its
\* characters
\* ------------------------------------------------------------------------
Digits == {"0", "1", "2", "3", "4", "5", "6", "7", "8", "9"}

\* str.isdigit(): not empty and digits only
isdigit(s) == Len(s) > 0 /\ \A i \in 1..Len(s) : s[i] \in Digits

Contains(s, c) == \E i \in 1..Len(s) : s[i] = c

\* s[k:]
From(s, k) == SubSeq(s, k + 1, Len(s))

RECURSIVE lstrip(_)
lstrip(s) == IF Len(s) > 0 /\ Head(s) = " " THEN lstrip(Tail(s)) ELSE s

RECURSIVE rstrip(_)
rstrip(s) ==
  IF Len(s) > 0 /\ s[Len(s)] = " " THEN rstrip(SubSeq(s, 1, Len(s) - 1)) ELSE s

strip(s) == rstrip(lstrip(s))

\* s.split(c, 1): the text before the first c and the text after it
FirstAt(s, c) == CHOOSE i \in 1..Len(s) : s[i] = c /\ \A j \in 1..(i - 1) : s[j] # c
TextBefore(s, c) == IF Contains(s, c) THEN SubSeq(s, 1, FirstAt(s, c) - 1) ELSE s
TextAfter(s, c) == SubSeq(s, FirstAt(s, c) + 1, Len(s))

\* Optional[str]
NoneStr == [kind |-> "None"]
SomeStr(s) == [kind |-> "str", s |-> s]

\* line 78: the text is returned as it is
AsIs(s) == SomeStr(s)

\* to_fhir_datetime (lines 36-80); nothing in the try block can raise
to_fhir_datetime(s0) ==
  IF s0 = << >> THEN NoneStr
  ELSE
    LET s == strip(TextBefore(strip(s0), "^"))
        date_part == SubSeq(s, 1, 4) \o <<"-">> \o SubSeq(s, 5, 6) \o <<"-">> \o SubSeq(s, 7, 8)
    IN  IF Len(s) >= 8 /\ isdigit(SubSeq(s, 1, 8))
        THEN IF Len(s) >= 14 /\ isdigit(SubSeq(s, 9, 14))
             THEN SomeStr(date_part \o <<"T">> \o SubSeq(s, 9, 10) \o <<":">>
                          \o SubSeq(s, 11, 12) \o <<":">> \o SubSeq(s, 13, 14) \o <<"Z">>)
             ELSE SomeStr(date_part)
        ELSE IF Len(s) = 10 /\ s[5] = "-" /\ s[8] = "-"
        THEN SomeStr(s)
        ELSE IF /\ Contains(s, "T") /\ ~Contains(s, "Z")
                /\ ~Contains(From(s, 10), "+") /\ ~Contains(From(s, 10), "-")
        THEN IF Len(TextAfter(s, "T")) = 5
             THEN SomeStr(TextBefore(s, "T") \o <<"T">> \o TextAfter(s, "T") \o <<":", "0", "0", "Z">>)
             ELSE SomeStr(s \o <<"Z">>)
        ELSE AsIs(s)

\* the texts given to to_fhir_datetime: HL7 timestamps, ISO dates and
\* date-times, a componentized and a padded timestamp, free text, a year
TsInputs ==
  { <<>>,
    <<"2", "0", "2", "4", "0", "1", "3", "1">>,
    <<"2", "0", "2", "4", "0", "1", "3", "1", "1", "2", "0", "0", "0", "0">>,
    <<"2", "0", "2", "4", "0", "1", "3", "1", "1", "2">>,
    <<"2", "0", "2", "4", "-", "0", "1", "-", "3", "1">>,
    <<"2", "0", "2", "4", "-", "0", "1", "-", "3", "1", "T", "1", "0", ":", "0", "0">>,
    <<"2", "0", "2", "4", "-", "0", "1", "-", "3", "1", "T", "1", "0", ":", "0", "0", ":", "0", "0">>,
    <<"2", "0", "2", "4", "-", "0", "1", "-", "3", "1", "T", "1", "0", ":", "0", "0", ":", "0", "0", "Z">>,
    <<"2", "0", "2", "4", "-", "0", "1", "-", "3", "1", "T", "1", "0", ":", "0", "0", ":", "0", "0", "+", "0", "2", ":", "0", "0">>,
    <<"2", "0", "2", "4", "0", "1", "3", "1", "^", "X">>,
    <<" ", "2", "0", "2", "4", "0", "1", "3", "1", " ">>,
    <<"T", "B", "D">>,
    <<"n", "o", "n", "e">>,
    <<"2", "0", "2", "0">>,
    <<" ">> }

ToFhirDatetimeCalls == { [fn |-> "to_fhir_datetime", arg |-> <<s>>] : s \in TsInputs }

call_to_fhir_datetime ==
  /\ fn = "to_fhir_datetime" /\ retval = NotCalled
  /\ retval' = Returned(to_fhir_datetime(arg[1]))
  /\ UNCHANGED <<fn, arg>>
  /\ UNCHANGED nonFnVars

\* str.upper() on the letters a-z
LowerCase == <<"a", "b", "c", "d", "e", "f", "g", "h", "i", "j", "k", "l", "m", "n", "o", "p", "q", "r", "s", "t", "u", "v", "w", "x", "y", "z">>
UpperCase == <<"A", "B", "C", "D", "E", "F", "G", "H", "I", "J", "K", "L", "M", "N", "O", "P", "Q", "R", "S", "T", "U", "V", "W", "X", "Y", "Z">>
UpperChar(c) ==
  IF \E i \in 1..Len(LowerCase) : LowerCase[i] = c
  THEN UpperCase[CHOOSE i \in 1..Len(LowerCase) : LowerCase[i] = c] ELSE c
UpperText(s) == [i \in 1..Len(s) |-> UpperChar(s[i])]

\* comp on a text: the component idx of a "^" separated field, "" out of range
RECURSIVE ccomp(_, _)
ccomp(field, idx) ==
  IF idx < 1 THEN << >>
  ELSE IF idx = 1 THEN TextBefore(field, "^")
  ELSE IF Contains(field, "^") THEN ccomp(TextAfter(field, "^"), idx - 1)
  ELSE << >>

\* float(text) succeeds: blanks around ignored, an optional sign, then digits
\* with an optional point and at least one digit, or nan / inf (the texts of
\* the model have no exponent, underscore or upper-case spelling)
Unsigned(s) == IF Len(s) > 0 /\ Head(s) \in {"+", "-"} THEN Tail(s) ELSE s
IsDecimal(s) ==
  /\ \E i \in 1..Len(s) : s[i] \in Digits
  /\ \A i \in 1..Len(s) : s[i] \in Digits \cup {"."}
  /\ Cardinality({ i \in 1..Len(s) : s[i] = "." }) <= 1
float_ok(s) ==
  LET u == Unsigned(strip(s))
  IN  IsDecimal(u) \/ u \in {<<"n", "a", "n">>, <<"i", "n", "f">>}

\* the number float(text) stands for, kept as its trimmed text
Float(s) == [float |-> strip(s)]

\* codeable_concept_from_ce (lines 160-181) on a text
codeable_concept_from_ce(ce_field) ==
  LET code == ccomp(ce_field, 1)
      text == ccomp(ce_field, 2)
      system == ccomp(ce_field, 3)
      system_uri == IF system # << >> /\ UpperText(system) \in {<<"L", "N">>, <<"L", "O", "I", "N", "C">>}
                    THEN <<"http://loinc.org">>
                    ELSE IF system # << >> THEN <<"urn:hl7v2:", system>> ELSE <<"urn:hl7v2">>
  IN  IF code # << >>
      THEN [coding |-> <<[system |-> system_uri, code |-> code,
                      display |-> IF text # << >> THEN SomeStr(text) ELSE NoneStr]>>]
      ELSE IF text # << >> THEN [text |-> text] ELSE << >>

\* the value of a date-typed OBX-5 that to_fhir_datetime gave back
DateValue(val, iso_val) == [valueDateTime |-> iso_val.s]

\* build_observation_from_obx, lines 341-373: the effective time from OBX-14
\* and the value typing by OBX-2, on the texts of OBX-2, OBX-5, OBX-6, OBX-14
observation_values(obx2, val, units, dt_obs) ==
  LET vtype == UpperText(obx2)
      iso_effective == to_fhir_datetime(dt_obs)
      iso_val == to_fhir_datetime(val)
      unit == IF Contains(units, "^")
              THEN IF ccomp(units, 2) # << >> THEN ccomp(units, 2) ELSE ccomp(units, 1)
              ELSE units
  IN  (IF iso_effective # NoneStr /\ iso_effective.s # << >>
       THEN [effectiveDateTime |-> iso_effective.s] ELSE << >>)
      @@
      (IF vtype \in {<<"T", "X">>, <<"S", "T">>} THEN [valueString |-> val]
       ELSE IF vtype = <<"N", "M">>
       THEN IF float_ok(val)
            THEN [valueQuantity |-> IF units # << >>
                                    THEN [value |-> Float(val), unit |-> unit]
                                    ELSE [value |-> Float(val)]]
            ELSE [valueString |-> val]
       ELSE IF vtype = <<"C", "E">>
       THEN [valueCodeableConcept |-> codeable_concept_from_ce(val)]
       ELSE IF vtype \in {<<"D", "T">>, <<"T", "S">>}
       THEN IF iso_val # NoneStr /\ iso_val.s # << >>
            THEN DateValue(val, iso_val) ELSE [valueString |-> val]
       ELSE [valueString |-> val])

\* the OBX fields of the calls: the value types, values, units and times
Obx2Texts == { <<"S", "T">>, <<"T", "X">>, <<"N", "M">>, <<"C", "E">>, <<"D", "T">>, <<"T", "S">>, <<"d", "t">>, <<"E", "D">>, <<>> }
Obx5Texts ==
  { <<>>, <<"a">>, <<"1", "2", ".", "5">>, <<"-", "7">>, <<"n", "a", "n">>, <<"2", "0", "2", "4", "0", "1", "3", "1">>, <<"2", "0", "2", "0">>, <<"A", "^", "B", "^", "L", "N">>, <<"2", "0", "2", "4", "-", "0", "1", "-", "3", "1", "T", "1", "0", ":", "0", "0">>, <<" ">> }
Obx6Texts == { <<>>, <<"m", "m">>, <<"m", "g", "^", "m", "i", "l", "l", "i", "g", "r", "a", "m">> }
Obx14Texts == { <<>>, <<"2", "0", "2", "4", "0", "1", "3", "1">>, <<"2", "0", "2", "0">> }

ObservationCalls ==
  { [fn |-> "build_observation_from_obx", arg |-> <<t, v, u, d>>] :
      t \in Obx2Texts, v \in Obx5Texts, u \in Obx6Texts, d \in Obx14Texts }

call_build_observation_from_obx ==
  /\ fn = "build_observation_from_obx" /\ retval = NotCalled
  /\ retval' = Returned(observation_values(arg[1], arg[2], arg[3], arg[4]))
  /\ UNCHANGED <<fn, arg>>
  /\ UNCHANGED nonFnVars

\* ------------------------------------------------------------------------
\* split_messages: a text is a sequence of pieces, each piece the start of a
\* header line ("MSH|"), other segment text, a blank, or a line break
\* character
\* ------------------------------------------------------------------------
MaxText == 5
CR == "\r"
LF == "\n"
Pieces == {"MSH|", "PID|1", " ", CR, LF}
Texts == UNION { [1..n -> Pieces] : n \in 0..MaxText }

\* s.replace("\r\n", "\n")
RECURSIVE ReplaceCrLf(_)
ReplaceCrLf(s) ==
  IF Len(s) = 0 THEN << >>
  ELSE IF Len(s) >= 2 /\ s[1] = CR /\ s[2] = LF THEN <<LF>> \o ReplaceCrLf(From(s, 2))
  ELSE <<Head(s)>> \o ReplaceCrLf(Tail(s))

\* s.replace("\r", "\n")
ReplaceCr(s) == [i \in 1..Len(s) |-> IF s[i] = CR THEN LF ELSE s[i]]

\* the variant that leaves a lone "\r" in place
_norm_crlfOnly(s) == ReplaceCrLf(s)

\* _norm (lines 11-13)
_norm(s) == ReplaceCr(ReplaceCrLf(s))

\* s.split("\n")
RECURSIVE SplitLines(_)
SplitLines(s) ==
  IF Contains(s, LF) THEN <<TextBefore(s, LF)>> \o SplitLines(TextAfter(s, LF)) ELSE <<s>>

\* "\n".join(lines)
RECURSIVE JoinLines(_)
JoinLines(lines) ==
  IF Len(lines) = 0 THEN << >>
  ELSE IF Len(lines) = 1 THEN lines[1]
  ELSE lines[1] \o <<LF>> \o JoinLines(Tail(lines))

\* str.strip() of a text with line breaks in it
IsBlank(c) == c \in {" ", CR, LF}
RECURSIVE strip_ws(_)
strip_ws(s) ==
  IF Len(s) > 0 /\ IsBlank(Head(s)) THEN strip_ws(Tail(s))
  ELSE IF Len(s) > 0 /\ IsBlank(s[Len(s)]) THEN strip_ws(SubSeq(s, 1, Len(s) - 1))
  ELSE s

NotBlank(ln) == strip_ws(ln) # << >>

\* split_segments (lines 15-17): the lines that are not blank
split_segments(hl7) == SelectSeq(SplitLines(_norm(hl7)), NotBlank)

\* ln.startswith("MSH|")
StartsMessage(ln) == Len(ln) > 0 /\ Head(ln) = "MSH|"

\* split_messages (lines 102-115): the block from each start to the next one
RECURSIVE Blocks(_, _)
Blocks(lines, start) ==
  IF start > Len(lines) THEN << >>
  ELSE IF ~StartsMessage(lines[start]) THEN Blocks(lines, start + 1)
  ELSE LET later == { i \in (start + 1)..Len(lines) : StartsMessage(lines[i]) }
           end == IF later = {} THEN Len(lines) + 1
                  ELSE CHOOSE i \in later : \A j \in later : i <= j
           block == strip_ws(JoinLines(SubSeq(lines, start, end - 1)))
       IN  (IF block # << >> THEN <<block>> ELSE << >>) \o Blocks(lines, end)

split_messages(hl7_text) == Blocks(split_segments(hl7_text), 1)

SplitMessagesCalls == { [fn |-> "split_messages", arg |-> <<t>>] : t \in Texts }

call_split_messages ==
  /\ fn = "split_messages" /\ retval = NotCalled
  /\ retval' = Returned(split_messages(arg[1]))
  /\ UNCHANGED <<fn, arg>>
  /\ UNCHANGED nonFnVars

\* the values RangeValue_IsComplete is called with: the ranges with any of
\* the four bound keys, each bound null, 0, a number, an empty quantity or a
\* quantity, and values that are not ranges
BoundKeys == {"low", "lowValue", "high", "highValue"}
BoundValues == {Null, Num(0), Num(5), EmptyDict, Dict("value" :> Num(1))}
RangeValues ==
  { Dict(f) : f \in UNION { [S -> BoundValues] : S \in SUBSET BoundKeys } }
    \cup {Null, Str("1-5"), List(<<Num(1)>>)}

RangeCalls == { [fn |-> "RangeValue_IsComplete", arg |-> <<v>>] : v \in RangeValues }

call_RangeValue_IsComplete ==
  /\ fn = "RangeValue_IsComplete" /\ retval = NotCalled
  /\ retval' = Returned(RangeValue_IsComplete(arg[1]))
  /\ UNCHANGED <<fn, arg>>
  /\ UNCHANGED nonFnVars

\*FNCALLS
FnCalls ==
  IndexCalls \cup GetFieldCalls \cup GetMshFieldCalls \cup ToFhirDatetimeCalls
  \cup ObservationCalls \cup SplitMessagesCalls
  \cup RangeCalls

FnInit ==
  /\ EvalIdle /\ ConvIdle /\ PipeIdle /\ SendIdle
  /\ \E c \in FnCalls : fn = c.fn /\ arg = c.arg
  /\ retval = NotCalled

FnNext ==
  \/ compute_index
  \/ call_get_field
  \/ call_get_msh_field
  \/ call_to_fhir_datetime
  \/ call_build_observation_from_obx
  \/ call_split_messages
  \/ call_RangeValue_IsComplete

FnSpec == FnInit /\ [][FnNext]_vars

\* ------------------------------------------------------------------------
\* Properties of evaluate_bundle (specification Spec)
\* ------------------------------------------------------------------------
IndexInRange(ix) == ix.defined => ix.x100 \in 0..10000

\* C1: with non-negative weights, after every loop iteration and in the result,
\* 0 <= numerator <= denominator, 0 <= weightedNumerator <= weightedDenominator,
\* and each index, when defined, lies in [0, 100].
C1_CountersBounded ==
  /\ 0 <= numerator /\ numerator <= denominator
  /\ 0 <= weighted_num /\ weighted_num <= weighted_den
  /\ result.defined =>
       /\ 0 <= result.numerator /\ result.numerator <= result.denominator
       /\ 0 <= result.weightedNumerator
       /\ result.weightedNumerator <= result.weightedDenominator
       /\ IndexInRange(result.piqiIndex)
       /\ IndexInRange(result.piqiWeightedIndex)

C1_Witness ==
  /\ pc = "done"
  /\ 0 < result.numerator /\ result.numerator < result.denominator
  /\ result.weightedNumerator < result.weightedDenominator
  /\ result.weightedDenominator > result.denominator
  /\ result.piqiIndex.defined /\ result.piqiWeightedIndex.defined

\* C4: a (step, resource, value) triple adds nothing to the denominators, or
\* exactly 1 to denominator and exactly the step's weight to
\* weightedDenominator; a SKIP triple (primary or prerequisite SKIP) changes no
\* counter; outside the evaluation of a triple (a step without resources, the
\* condition gate) no counter changes.
C4_TripleAccounting ==
  [][ /\ pc # "val" => UNCHANGED Counters
      /\ pc = "val" =>
           /\ \/ denominator' = denominator /\ weighted_den' = weighted_den
              \/ /\ denominator' = denominator + 1
                 /\ weighted_den' = weighted_den + CurStep.weight
           /\ (status' = "SKIP" \/ prereq_status' = "SKIP") => UNCHANGED Counters
    ]_vars

C4_Witness ==
  /\ status = "SKIP"
  /\ denominator = 1 /\ weighted_den = 2 /\ numerator = 1 /\ weighted_num = 2

\* C5: a triple appends exactly one detail when the step is Scoring and a
\* terminal status was reached (primary PASS, FAIL or SKIP, or prerequisite
\* FAIL), and none otherwise; an Informational step never appends one.
C5_DetailPerTriple ==
  [][ (pc = "val" /\ pc' # "error") =>
        IF /\ CurStep.effect = "Scoring"
           /\ (status' \in {"PASS", "FAIL", "SKIP"} \/ prereq_status' = "FAIL")
        THEN Len(details') = Len(details) + 1
        ELSE details' = details
    ]_vars

\* C6: a condition SAM that returns anything but PASS leaves the counters and
\* the details alone and runs neither the prerequisite nor the primary SAM for
\* the resource.
C6_ConditionGate ==
  [][ (pc = "res" /\ HasCondition(CurStep) /\ cond_status' # "PASS") =>
        /\ UNCHANGED Counters
        /\ details' = details
        /\ ran' = <<CurStep.condition.sam>>
        /\ pc' # "val"
    ]_vars

C6_Witness ==
  /\ cond_status \in {"FAIL", "SKIP"}
  /\ ran = <<"Custom_Cond">>
  /\ denominator = 1 /\ Len(details) = 1

\* C7: a prerequisite FAIL adds 1 to denominator and the step's weight to
\* weightedDenominator, leaves the numerators, appends one FAIL detail naming
\* the prerequisite (Scoring steps), adds 1 to criticalFailureCount when the
\* step is critical, and does not run the primary SAM.
C7_PrereqFail ==
  [][ (pc = "val" /\ prereq_status' = "FAIL") =>
        /\ denominator' = denominator + 1
        /\ weighted_den' = weighted_den + CurStep.weight
        /\ numerator' = numerator /\ weighted_num' = weighted_num
        /\ IF CurStep.effect = "Scoring"
           THEN /\ Len(details') = Len(details) + 1
                /\ details'[Len(details')].sam = Prereq(CurStep)
                /\ details'[Len(details')].status = "FAIL"
           ELSE details' = details
        /\ critical_fails' =
             IF CurStep.critical THEN critical_fails + 1 ELSE critical_fails
        /\ ran' = <<Prereq(CurStep)>>
    ]_vars

\* C8: a mnemonic that is missing from the SAM library or from the dispatch
\* table, used as a step's SAM, yields SKIP for the triple and evaluation goes
\* on.
C8_UnknownSamSkips ==
  [][ (pc = "val" /\ (~HasSamDef(CurStep) \/ CurStep.sam \notin sam_dispatch)) =>
        /\ pc' # "error"
        /\ status' = "SKIP" \/ prereq_status' \in {"SKIP", "FAIL"}
    ]_vars

\* C9: when the primary SAM of a triple raises, a SKIP detail with the step's
\* mnemonic is recorded, the counters are unchanged and evaluation goes on.
C9_RaiseConfined ==
  [][ (pc = "val" /\ PrimaryReached /\ PrimaryStatus = "RAISE") =>
        /\ pc' # "error"
        /\ UNCHANGED Counters
        /\ details' = SkipDetails(details, CurStep, CurRes, CurVal, vi)
    ]_vars

\* the place of a detail: step in the profile, resource in the bundle, value
\* in the fan-out
StepPos(d) == CHOOSE k \in 1..Len(steps) : steps[k].id = d.stepId
EntryPos(d) == CHOOSE k \in 1..Len(bundle) : Get(bundle[k], "id") = d.resourceId
Before(d, e) ==
  \/ StepPos(d) < StepPos(e)
  \/ StepPos(d) = StepPos(e) /\ EntryPos(d) < EntryPos(e)
  \/ StepPos(d) = StepPos(e) /\ EntryPos(d) = EntryPos(e) /\ d.fan < e.fan

\* C10: details are ordered lexicographically by (step position in the
\* profile, resource position among the entries of its type, value position in
\* the fan-out).
C10_DetailsOrdered ==
  \A i \in 1..Len(details) : \A j \in 1..Len(details) :
     i < j => Before(details[i], details[j])

C10_Witness ==
  /\ pc = "done" /\ Len(details) = 5
  /\ details[1].stepId # details[5].stepId
  /\ details[1].resourceId # details[2].resourceId
  /\ details[5].fan = 2

\* ------------------------------------------------------------------------
\* Properties of the converter and the annotators (specification ConvSpec)
\* ------------------------------------------------------------------------
Range(q) == { q[i] : i \in 1..Len(q) }

\* the references a resource holds: subject, encounter, patient, result[],
\* the sourceMessage extension
Refs(r) ==
  ({ r[k] : k \in DOMAIN r \cap {"subject", "encounter", "patient", "sourceMessage"} }
     \ {NoRef})
  \cup (IF "result" \in DOMAIN r THEN Range(r.result) ELSE {})

Resolves(ref, entries) ==
  \E i \in 1..Len(entries) :
     entries[i].resourceType = ref.type /\ entries[i].id = ref.id

\* C2: every reference held by a resource of a converted bundle, before and
\* after annotation, names an entry of the same bundle with that resourceType
\* and id.
C2_ReferencesResolve ==
  \A i \in 1..Len(cbundle) : \A ref \in Refs(cbundle[i]) : Resolves(ref, cbundle)

C2_Witness ==
  /\ cstage = "annotated"
  /\ \E i \in 1..Len(cbundle) :
       /\ cbundle[i].resourceType = "DiagnosticReport"
       /\ Len(cbundle[i].result) = 1
       /\ "encounter" \in DOMAIN cbundle[i] /\ "subject" \in DOMAIN cbundle[i]
  /\ {"subject", "sourceMessage"} \subseteq DOMAIN cbundle[Len(cbundle)]

Rank(r) ==
  CASE r.resourceType = "MessageHeader" -> 1
    [] r.resourceType = "Patient" -> 2
    [] r.resourceType = "Encounter" -> 3
    [] r.resourceType = "DiagnosticReport" -> 4
    [] r.resourceType = "Observation" -> 5
    [] r.resourceType = "Claim" -> 6

OfType(entries, rtype) == SelectSeq(entries, LAMBDA r : r.resourceType = rtype)
IsPiqi(r) == r.resourceType = "Observation" /\ "code" \in DOMAIN r /\ r.code = "PIQI-INDEX"

\* the entries the converter wrote
Converted ==
  SubSeq(cbundle, 1, Len(cbundle) - annotations)

ReportType == StartsWith(detect_message_type(msg), "ORU")
                \/ StartsWith(detect_message_type(msg), "ADT")
ClaimType == ~ReportType /\ StartsWith(detect_message_type(msg), "DFT")

\* C3: the entries are MessageHeader, Patient (if any), Encounter (if any),
\* DiagnosticReport (if any), the Observations in OBX order, the Claims in FT1
\* order; after annotation the PIQI Observation is last and the entries before
\* it are as the converter wrote them.
C3_EntryOrder ==
  cstage \in {"converted", "annotated"} =>
    LET written == Converted
        obs == OfType(written, "Observation")
        claims == OfType(written, "Claim")
        obx == Segments(msg, "OBX")
        ft1 == Segments(msg, "FT1")
    IN /\ Len(written) >= 1 /\ written[1].resourceType = "MessageHeader"
       /\ \A i \in 1..Len(written) : \A j \in 1..Len(written) :
            i < j => /\ Rank(written[i]) <= Rank(written[j])
                     /\ Rank(written[i]) <= 4 => Rank(written[i]) < Rank(written[j])
       /\ \A i \in 1..Len(written) : ~IsPiqi(written[i])
       /\ [i \in 1..Len(obs) |-> obs[i].valueString]
            = (IF ReportType
               THEN [i \in 1..Len(obx) |-> comp(get_field(obx[i].fields, 5), 1)]
               ELSE << >>)
       /\ [i \in 1..Len(claims) |-> claims[i].productOrService[1]]
            = (IF ClaimType
               THEN [i \in 1..Len(ft1) |-> comp(get_field(ft1[i].fields, 6), 1)]
               ELSE << >>)
       /\ cstage = "annotated" => IsPiqi(cbundle[Len(cbundle)])

C3_Witness ==
  /\ cstage = "annotated"
  /\ Len(cbundle) = 6
  /\ cbundle[2].resourceType = "Patient"
  /\ cbundle[3].resourceType = "DiagnosticReport"
  /\ cbundle[4].resourceType = "Observation" /\ cbundle[4].valueString = "b"
  /\ cbundle[5].resourceType = "Observation" /\ cbundle[5].valueString = "a"
  /\ IsPiqi(cbundle[6])

\* C12: evaluate_bundle leaves the bundle, the profile steps and their params
\* maps as they were, also when a plausibility SAM is called with the config
\* added to its params.
C12_InputsUnchanged ==
  [][ (pc \in {"step", "res", "val"}) => (bundle' = bundle /\ steps' = steps)
    ]_vars

C12_Witness ==
  /\ ran = <<"Observation_UnitAllowed", "Observation_ValueWithinRange">>
  /\ status \in {"PASS", "FAIL"}
  /\ pc = "done" /\ denominator > 0

\* C13: every add_piqi_to_bundle call appends one PIQI Observation and leaves
\* the entries before it: after k calls the bundle is the converter's entries
\* followed by k PIQI Observations.
C13_AppendsOne ==
  cstage \in {"converted", "annotated"} =>
    LET written == convert_message_to_bundle(msg, 0).entry
    IN /\ Len(cbundle) = Len(written) + annotations
       /\ SubSeq(cbundle, 1, Len(cbundle) - annotations) = written
       /\ \A i \in 1..Len(cbundle) :
            IsPiqi(cbundle[i]) <=> i > Len(cbundle) - annotations

C13_Witness ==
  /\ annotations = 2
  /\ Len(cbundle) = 6
  /\ IsPiqi(cbundle[5]) /\ IsPiqi(cbundle[6])
  /\ "subject" \in DOMAIN cbundle[5] /\ "subject" \notin DOMAIN cbundle[6]

\* ------------------------------------------------------------------------
\* Properties of the pipelines (specification PipeSpec)
\* ------------------------------------------------------------------------
HasPiqi(entries) == \E i \in 1..Len(entries) : IsPiqi(entries[i])

Types(entries) == [i \in 1..Len(entries) |-> entries[i].resourceType]
\* position (name, idx) comes before position (name2, idx2) in the input
InputBefore(name, idx, name2, idx2) ==
  \/ NameRank(name) < NameRank(name2)
  \/ name = name2 /\ idx < idx2
\* the messages of the listed files
InputPositions ==
  { <<listing[k], idx>> : k \in 1..Len(listing), idx \in 1..MaxMsgs + 1 }
    \cap { <<name, idx>> \in FileNames \X (1..MaxMsgs + 1) : idx <= Len(files[name]) }

\* C15: process_out_folder returns lists of equal length whose position i
\* belongs to one input message, in input order (files by sorted name, messages
\* by position in the file); score i has the MessageHeader id of bundle i as
\* messageId and the message's 1-based position as _source_index.
C15_StreamsAligned ==
  (pipeline = "process_out_folder" /\ pstage = "done") =>
    /\ Len(bundles) = Len(scores)
    /\ include_annotated => Len(annotated) = Len(bundles)
    /\ { <<bundles[i].tag[1], bundles[i].tag[2]>> : i \in 1..Len(bundles) } = InputPositions
    /\ \A i \in 1..Len(bundles) :
         /\ Types(bundles[i].entry)
              = Types(convert_message_to_bundle(
                        files[bundles[i].tag[1]][bundles[i].tag[2]], 0).entry)
         /\ scores[i]._source_file = bundles[i].tag[1]
         /\ scores[i]._source_index = bundles[i].tag[2]
         /\ scores[i].messageId = FirstId(bundles[i].entry, "MessageHeader")
         /\ include_annotated =>
              /\ annotated[i].tag = bundles[i].tag
              /\ annotated[i].entry[1] = bundles[i].entry[1]
         /\ \A j \in 1..Len(bundles) :
              i < j => InputBefore(bundles[i].tag[1], bundles[i].tag[2],
                                   bundles[j].tag[1], bundles[j].tag[2])

C15_Witness ==
  /\ pipeline = "process_out_folder" /\ pstage = "done" /\ include_annotated
  /\ listing = <<"b.hl7", "a.hl7">>
  /\ Len(bundles) = 3 /\ Len(scores) = 3 /\ Len(annotated) = 3
  /\ bundles[1].tag[1] = "a.hl7" /\ bundles[3].tag[1] = "b.hl7"
  /\ scores[2]._source_index = 2

\* ------------------------------------------------------------------------
\* Properties of the FHIR client (specification SendSpec)
\* ------------------------------------------------------------------------
ResourceOf(e) == Or(Get(e, "resource"), EmptyDict)
\* the entry's resource has a non-empty resourceType and a non-empty id
Identified(e) ==
  /\ HasKey(ResourceOf(e), "resourceType") /\ ResourceOf(e).kv.resourceType \notin {Null, Str("")}
  /\ HasKey(ResourceOf(e), "id") /\ ResourceOf(e).kv.id \notin {Null, Str("")}
IdentifiedAt(es) == { i \in 1..Len(es) : Identified(es[i]) }
\* the position in es of the j-th identified entry
NthIdentified(es, j) ==
  CHOOSE i \in IdentifiedAt(es) : Cardinality({ k \in IdentifiedAt(es) : k < i }) = j - 1

TransactionOf(t, b) ==
  LET es == EntriesOf(b)
      out == t.kv.entry.items
  IN /\ t.kv.type = Str("transaction")
     /\ Len(out) = Cardinality(IdentifiedAt(es))
     /\ \A j \in 1..Len(out) :
          LET src == ResourceOf(es[NthIdentified(es, j)])
              res == out[j].kv.resource
          IN /\ DOMAIN out[j].kv = {"resource", "request"}
             /\ DOMAIN res.kv = DOMAIN src.kv \ {"meta", "text"}
             /\ \A k \in DOMAIN res.kv : res.kv[k] = src.kv[k]
             /\ out[j].kv.request =
                  Dict([method |-> Str("PUT"),
                        url |-> Str(res.kv.resourceType.s \o "/" \o res.kv.id.s)])

\* C16: the step that builds the transaction leaves the message bundle as it
\* was and yields a bundle of type "transaction" with, in the original order,
\* one entry per input entry whose resource has a non-empty resourceType and
\* id: that resource without meta and text, and request PUT <resourceType>/<id>.
C16_Transaction ==
  [][ (sstage = "call" /\ sstage' = "post") =>
        (original_bundle' = original_bundle /\ TransactionOf(txn', original_bundle))
    ]_vars

C16_Witness ==
  /\ sstage = "post"
  /\ Len(EntriesOf(original_bundle)) = 2
  /\ ~Identified(EntriesOf(original_bundle)[1])
  /\ HasKey(ResourceOf(EntriesOf(original_bundle)[1]), "meta")
  /\ Identified(EntriesOf(original_bundle)[2])
  /\ HasKey(ResourceOf(EntriesOf(original_bundle)[2]), "text")
  /\ Len(txn.kv.entry.items) = 1
  /\ txn.kv.entry.items[1].kv.request.kv.url = Str("Patient/p1")

\* C17: a transport failure of the POST reaches the caller of
\* maybe_send_to_iris as a returned value, never as an exception.
C17_TransportErrorReturned == sret.kind # "raise"

\* C18: a call with enabled false makes no request and returns None; a call
\* with enabled true that has ended made exactly one request, and no call
\* makes more than one.
C18_OnePost ==
  /\ posts <= 1
  /\ ~enabled => (posts = 0 /\ (sstage = "returned" => sret.kind = "None"))
  /\ (enabled /\ sstage \in {"returned", "raised"}) => posts = 1

C18_Witness ==
  /\ enabled /\ sstage = "returned" /\ posts = 1
  /\ sret.kind = "Response" /\ sret.status_code = 500

\* ------------------------------------------------------------------------
\* Properties of the converter by message type (specification ConvSpec)
\* ------------------------------------------------------------------------
OruType == StartsWith(detect_message_type(msg), "ORU")
FallbackType ==
  /\ ~StartsWith(detect_message_type(msg), "ORU")
  /\ ~StartsWith(detect_message_type(msg), "ADT")
  /\ ~StartsWith(detect_message_type(msg), "DFT")

\* the code of a report built from the OBR segment obr
CodeOfObr(obr) ==
  IF comp(get_field(obr.fields, 4), 1) # "" THEN comp(get_field(obr.fields, 4), 1)
  ELSE "Diagnostic Report"

\* C19: the bundle of an ORU message has exactly one DiagnosticReport, built
\* from the first OBR or, without an OBR, synthesized with the code "Diagnostic
\* Report"; it has one Observation per OBX, and the report's result is the list
\* of the references to these Observations, one each, in OBX order.
C19_OruReport ==
  (cstage \in {"converted", "annotated"} /\ OruType) =>
    LET drs == OfType(Converted, "DiagnosticReport")
        obs == OfType(Converted, "Observation")
        obx == Segments(msg, "OBX")
        obr == Segments(msg, "OBR")
    IN /\ Len(drs) = 1
       /\ drs[1].code = (IF Len(obr) > 0 THEN CodeOfObr(obr[1]) ELSE "Diagnostic Report")
       /\ Len(obs) = Len(obx)
       /\ \A i \in 1..Len(obs) : obs[i].valueString = comp(get_field(obx[i].fields, 5), 1)
       /\ \A i \in 1..Len(obs) : \A j \in 1..Len(obs) : i # j => obs[i].id # obs[j].id
       /\ drs[1].result = [i \in 1..Len(obs) |-> Ref("Observation", obs[i].id)]

C19_Witness ==
  /\ cstage = "converted" /\ OruType
  /\ msg[1] = Msh(<<"oru", "R01">>)
  /\ Len(Segments(msg, "OBR")) = 0
  /\ Len(Segments(msg, "OBX")) = 2
  /\ Segments(msg, "OBX")[1] # Segments(msg, "OBX")[2]
  /\ Len(OfType(cbundle, "DiagnosticReport")) = 1
  /\ Len(OfType(cbundle, "DiagnosticReport")[1].result) = 2

\* C20: the bundle of a message that is neither ORU, ADT nor DFT is the
\* MessageHeader, followed by a Patient exactly when the message has a PID
\* segment, whatever other segments it has.
C20_Fallback ==
  (cstage \in {"converted", "annotated"} /\ FallbackType) =>
    Types(Converted) =
      <<"MessageHeader">> \o (IF Len(Segments(msg, "PID")) > 0 THEN <<"Patient">> ELSE << >>)

C20_Witness ==
  /\ cstage = "converted" /\ FallbackType
  /\ msg[1] = ShortMsh
  /\ Len(msg) = 4
  /\ msg[2].seg = "OBX" /\ msg[3].seg = "PID" /\ msg[3].fields = << >> /\ msg[4].seg = "PV1"
  /\ Types(cbundle) = <<"MessageHeader", "Patient">>

\* ------------------------------------------------------------------------
\* Properties of the helper functions (specification FnSpec)
\* ------------------------------------------------------------------------
\* 100 * n / d in hundredths, a tie rounded away from zero
HalfAway(n, d) ==
  IF 2 * ((10000 * n) % d) < d THEN (10000 * n) \div d ELSE (10000 * n) \div d + 1

\* C21: the index is defined exactly when the denominator is positive and is
\* then 100 * numerator / denominator rounded to two decimals, a tie rounded
\* away from zero (100 * 1 / 32 = 3.125 gives 3.13).
C21_HalfAwayFromZero ==
  (fn = "index" /\ retval # NotCalled) =>
    retval.value = (IF arg[2] > 0
                 THEN [defined |-> TRUE, x100 |-> HalfAway(arg[1], arg[2])]
                 ELSE NoResult)

\* ------------------------------------------------------------------------
\* Further properties of evaluate_bundle (specification Spec)
\* ------------------------------------------------------------------------
\* C22: an evaluation of a (step, resource, value) triple adds 1 to
\* criticalFailureCount exactly when it ends in FAIL (of the prerequisite or of
\* the primary SAM) on a critical step, whatever the step's weight and effect;
\* a FAIL adds 1 to denominator and the weight to weightedDenominator.
C22_CriticalCount ==
  [][ (pc = "val" /\ pc' # "error") =>
        LET failed == prereq_status' = "FAIL" \/ status' = "FAIL"
        IN /\ critical_fails' =
                IF CurStep.critical /\ failed THEN critical_fails + 1 ELSE critical_fails
           /\ failed => /\ denominator' = denominator + 1
                        /\ weighted_den' = weighted_den + CurStep.weight
    ]_vars

\* C23: nominal field n of a line is the n-th piece after the segment name,
\* except on MSH, where field 1 is the separator itself and field n >= 2 is the
\* (n-1)-th piece after the name; every other n, negative ones included, gives
\* the empty field; MSH-2 is the encoding characters and the first component
\* of MSH-9 is the message code.
C23_FieldAccess ==
  /\ (fn = "get_field" /\ retval # NotCalled) =>
       retval.value = (IF 1 <= arg[2] /\ arg[2] + 1 <= Len(arg[1])
                       THEN arg[1][arg[2] + 1] ELSE EmptyField)
  /\ (fn = "get_msh_field" /\ retval # NotCalled) =>
       /\ retval.value = (IF 2 <= arg[2] /\ arg[2] <= Len(arg[1])
                          THEN arg[1][arg[2]] ELSE EmptyField)
       /\ (arg[2] = 2 /\ Len(arg[1]) >= 2) => retval.value = F("^~\\&")
       /\ (arg[2] = 9 /\ arg[1] = MshLine) => comp(retval.value, 1) = "ORU"

C23_Witness ==
  /\ fn = "get_field" /\ retval # NotCalled
  /\ arg[2] = 0 - 1 /\ Len(arg[1]) = 6
  /\ retval.value = EmptyField
\* a FHIR date YYYY-MM-DD and a FHIR dateTime YYYY-MM-DDTHH:MM:SS with a zone
IsFhirDate(s) ==
  /\ Len(s) = 10
  /\ isdigit(SubSeq(s, 1, 4)) /\ s[5] = "-" /\ isdigit(SubSeq(s, 6, 7))
  /\ s[8] = "-" /\ isdigit(SubSeq(s, 9, 10))

IsZone(z) ==
  \/ z = <<"Z">>
  \/ /\ Len(z) = 6 /\ z[1] \in {"+", "-"} /\ isdigit(SubSeq(z, 2, 3))
     /\ z[4] = ":" /\ isdigit(SubSeq(z, 5, 6))

IsFhirDateTime(s) ==
  /\ Len(s) >= 20
  /\ IsFhirDate(SubSeq(s, 1, 10)) /\ s[11] = "T"
  /\ isdigit(SubSeq(s, 12, 13)) /\ s[14] = ":" /\ isdigit(SubSeq(s, 15, 16))
  /\ s[17] = ":" /\ isdigit(SubSeq(s, 18, 19))
  /\ IsZone(From(s, 19))

\* C24: to_fhir_datetime gives, for every input, a well-formed date or
\* dateTime or nothing at all (None, or the empty text that the callers take
\* for nothing); free text and fewer than eight leading digits give nothing.
C24_WellFormedOrAbsent ==
  (fn = "to_fhir_datetime" /\ retval # NotCalled) =>
    \/ retval.value = NoneStr
    \/ retval.value = SomeStr(<< >>)
    \/ /\ retval.value.kind = "str"
       /\ IsFhirDate(retval.value.s) \/ IsFhirDateTime(retval.value.s)

\* the part of C24 that the code keeps: eight digits give a date, fourteen a
\* dateTime in UTC, an ISO date stays, an ISO date-time without a zone gets Z
C24_ParsedShapes ==
  (fn = "to_fhir_datetime" /\ retval # NotCalled) =>
    LET s == strip(TextBefore(strip(arg[1]), "^"))
    IN  /\ (Len(s) = 8 /\ isdigit(s)) => IsFhirDate(retval.value.s)
        /\ (Len(s) = 14 /\ isdigit(s)) =>
              IsFhirDateTime(retval.value.s) /\ From(retval.value.s, 19) = <<"Z">>
        /\ IsFhirDate(s) => retval.value = SomeStr(s)
        /\ (Len(s) = 19 /\ IsFhirDateTime(s \o <<"Z">>)) => retval.value = SomeStr(s \o <<"Z">>)
        /\ (Len(s) = 16 /\ IsFhirDateTime(s \o <<":", "0", "0", "Z">>)) =>
              retval.value = SomeStr(s \o <<":", "0", "0", "Z">>)
\* the value[x] keys of a built Observation
ValueKeysOf(o) == { k \in DOMAIN o : \E i \in 1..Len(ValueXKeys) : ValueXKeys[i] = k }

\* the text is a date or a time: to_fhir_datetime makes a date or dateTime of it
IsDateText(val) ==
  LET r == to_fhir_datetime(val)
  IN  r # NoneStr /\ (IsFhirDate(r.s) \/ IsFhirDateTime(r.s))

\* every Observation built from an OBX carries exactly one value[x]
ExactlyOneValue ==
  (fn = "build_observation_from_obx" /\ retval # NotCalled) =>
    Cardinality(ValueKeysOf(retval.value)) = 1

\* C25: an Observation built from an OBX carries exactly one value[x], chosen
\* by OBX-2: TX/ST valueString; NM valueQuantity when OBX-5 is a number and
\* valueString otherwise; CE valueCodeableConcept; DT/TS valueDateTime when
\* OBX-5 is a date or time and valueString otherwise; any other valueString.
C25_ValueByType ==
  (fn = "build_observation_from_obx" /\ retval # NotCalled) =>
    LET vtype == UpperText(arg[1])
        val == arg[2]
        expected ==
          IF vtype \in {<<"T", "X">>, <<"S", "T">>} THEN "valueString"
          ELSE IF vtype = <<"N", "M">>
          THEN IF float_ok(val) THEN "valueQuantity" ELSE "valueString"
          ELSE IF vtype = <<"C", "E">> THEN "valueCodeableConcept"
          ELSE IF vtype \in {<<"D", "T">>, <<"T", "S">>}
          THEN IF IsDateText(val) THEN "valueDateTime" ELSE "valueString"
          ELSE "valueString"
    IN  ValueKeysOf(retval.value) = {expected}
\* the lines of a text, taken from the text itself: the longest runs of
\* pieces without a line break character, in order, the blank ones left out
IsBreak(c) == c \in {CR, LF}
IsRun(t, i, j) ==
  /\ i <= j
  /\ \A k \in i..j : ~IsBreak(t[k])
  /\ i = 1 \/ IsBreak(t[i - 1])
  /\ j = Len(t) \/ IsBreak(t[j + 1])
RunStarts(t) ==
  { i \in 1..Len(t) : \E j \in i..Len(t) : IsRun(t, i, j) /\ NotBlank(SubSeq(t, i, j)) }
RunFrom(t, i) == SubSeq(t, i, CHOOSE j \in i..Len(t) : IsRun(t, i, j))
RECURSIVE InOrder(_, _)
InOrder(t, starts) ==
  IF starts = {} THEN << >>
  ELSE LET i == CHOOSE x \in starts : \A y \in starts : x <= y
       IN  <<RunFrom(t, i)>> \o InOrder(t, starts \ {i})
NonEmptyLines(t) == InOrder(t, RunStarts(t))

\* the lines from the first header line onward
RECURSIVE FromFirstHeader(_)
FromFirstHeader(lines) ==
  IF Len(lines) = 0 \/ StartsMessage(Head(lines)) THEN lines
  ELSE FromFirstHeader(Tail(lines))

\* a line without the blanks after its text
Trimmed(lines) == [i \in 1..Len(lines) |-> rstrip(lines[i])]

FirstValue(res, path) ==
  IF Len(_extract_value(res, path)) = 0 THEN Null ELSE _extract_value(res, path)[1]

\* C27: the condition SAM of a step is evaluated once per resource against
\* the first value extracted for step.path on that resource, or against null
\* when nothing is extracted, and not against the list of the extracted values.
C27_ConditionOnFirstValue ==
  [][(pc = "res" /\ HasCondition(CurStep) /\ pc' # "error") =>
        /\ ran'[1] = CurStep.condition.sam
        /\ cond_status' = _run_sam(CurStep.condition.sam,
                                   FirstValue(CurRes, CurStep.path),
                                   CurRes, CurStep.condition.params)]_vars
\* nothing is extracted for the step's path on the resource
ExtractsNothing(res, path) == Len(_extract_value(res, path)) = 0

\* the steps and the bundle of the example: (Patient, birthDate, Attr_IsDate,
\* weight 1) and (Observation, code, Concept_HasCode, weight 2, critical) on a
\* Patient with birthDate "1980-01-01" and an Observation without code
ExampleProfile == <<StepPool[1], StepPool[2]>>
ExampleBundle == <<ResourcePool[1], ResourcePool[4]>>

Present(value, key) == HasKey(value, key) /\ Get(value, key) # Null

\* C30: RangeValue_IsComplete returns PASS exactly when the range has a low
\* bound (under low or lowValue) and a high bound (under high or highValue),
\* whatever the bound is, the number 0 and an empty quantity included, and
\* FAIL when a bound is absent or null.
C30_BothBoundsPresent ==
  (fn = "RangeValue_IsComplete" /\ retval # NotCalled /\ IsDict(arg[1])) =>
    retval.value = (IF /\ Present(arg[1], "low") \/ Present(arg[1], "lowValue")
                       /\ Present(arg[1], "high") \/ Present(arg[1], "highValue")
                    THEN "PASS" ELSE "FAIL")

\* ------------------------------------------------------------------------
\* Further properties of the annotators (specification ConvSpec)
\* ------------------------------------------------------------------------
\* C29: the PIQI Observation that an annotator entry point appends
\* (add_piqi_to_bundle of hl7_out_to_piqi.py and of fhir_annotate.py) is built
\* from the result and the bundle in their roles: its value is the result's
\* piqiIndex, its components are the result's numerator, denominator and
\* criticalFailureCount, its subject is the bundle's first Patient when there
\* is one, and its sourceMessage is the bundle's MessageHeader.
C29_BuiltFromResultAndBundle ==
  [][annotations' = annotations + 1 =>
       LET obs == cbundle'[Len(cbundle')]
       IN  /\ \E piqi \in PiqiResults(cbundle) :
                /\ obs.value = piqi.piqiIndex
                /\ obs.component = piqi.component
           /\ FirstId(cbundle, "Patient") # NoId =>
                /\ "subject" \in DOMAIN obs
                /\ obs.subject = Ref("Patient", FirstId(cbundle, "Patient"))
           /\ FirstId(cbundle, "MessageHeader") # NoId =>
                /\ "sourceMessage" \in DOMAIN obs
                /\ obs.sourceMessage = Ref("MessageHeader", FirstId(cbundle, "MessageHeader"))]_vars

====
